---- MODULE Spec2Model ----
(***************************************************************************)
(* The encrypted key-value store of politeiawww/database: the leveldb and  *)
(* cockroachdb backends, the sbox envelope, the version-record codec and   *)
(* the Open bootstrap, as a state machine of concurrent callers working on *)
(* one store instance at a time.                                           *)
(*                                                                         *)
(* backend values:                                                         *)
(*   "leveldb"       politeiawww/database/leveldb/leveldb.go               *)
(*   "leveldb0"      unnamed/part_004 (leveldb, Open seals the marker)     *)
(*   "cockroachdb"   politeiawww/database/cockroachdb/cockroachdb.go       *)
(*   "cockroachdb0"  unnamed/part_003 (users table, Set/Get, base64)       *)
(***************************************************************************)
EXTENDS Integers, Sequences, FiniteSets, TLC

\* ------------------------------------------------------------- bounds
NumProcs == 2
NumUserKeys == 1
NumPayloads == 2
NumEncKeys == 2
MaxInstances == 2

\* ---------------------------------------------------- program constants
DatabaseVersion == 1
RecordTypeInvalid == 0
RecordTypeUser == 1
RecordTypeVersion == 2
\* the record type of the last paywall address index, the kind after the
\* version record
RecordTypeLastPaywallAddrIdx == 3
\* DatabaseVersionKey ("userversion") is key 0; user keys are 1..NumUserKeys
DatabaseVersionKey == 0
\* a schema version other than the current one, as an older or newer build
\* of the program writes it
OtherVersion == DatabaseVersion + 1

Procs == 1..NumProcs
UserKeys == 1..NumUserKeys
Keys == {DatabaseVersionKey} \cup UserKeys
EncKeys == 1..NumEncKeys
\* ciphertext that no key opens (tampered or corrupted at rest)
NoKey == 0

Backends == {"leveldb", "leveldb0", "cockroachdb", "cockroachdb0"}
LevelDBs == {"leveldb", "leveldb0"}

\* ------------------------------------------------------------ payloads
\* Every byte slice is a record with a kind: "nil", "bytes" (an opaque
\* caller payload), "json" (an encoded Version record), "sbox" (a sealed
\* envelope), "b64" (a base64 string).
Nil == [kind |-> "nil"]
Bytes(n) == [kind |-> "bytes", b |-> n]
UserPayloads == {Bytes(n) : n \in 1..NumPayloads}

\* sbox.Encrypt(version, key, data): the envelope embeds the version and
\* can be opened only with the key that sealed it.
Encrypt(version, key, data) ==
    [kind |-> "sbox", ver |-> version, ek |-> key, data |-> data]

\* sbox.Decrypt(key, packed) -> (data, version, err)
Decrypt(key, packed) ==
    IF packed.kind = "sbox" /\ packed.ek = key
    THEN [err |-> "nil", data |-> packed.data, ver |-> packed.ver]
    ELSE [err |-> "ErrDecrypt", data |-> Nil, ver |-> 0]

verifyRecordVersion(recordVersion, dbVersion) ==
    IF recordVersion # dbVersion THEN "ErrWrongRecordVersion" ELSE "nil"

verifyRecordType(recordType, expectedType) ==
    IF recordType # expectedType THEN "ErrWrongRecordType" ELSE "nil"

\* json.Marshal of a Version struct
MarshalVersion(v) ==
    [kind |-> "json", recordtype |-> v.recordtype,
     recordversion |-> v.recordversion, version |-> v.version, time |-> v.time]

\* Mutant of EncodeVersion: the caller's record type and record version are
\* marshalled as given
EncodeVersion_asGiven(version) ==
    MarshalVersion([recordtype |-> IF "recordtype" \in DOMAIN version
                                   THEN version.recordtype ELSE RecordTypeInvalid,
                    recordversion |-> IF "recordversion" \in DOMAIN version
                                      THEN version.recordversion ELSE 0,
                    version |-> version.version, time |-> version.time])

\* EncodeVersion sets the record type and record version, then marshals
EncodeVersion(version) ==
    MarshalVersion([recordtype |-> RecordTypeVersion,
                    recordversion |-> DatabaseVersion,
                    version |-> version.version, time |-> version.time])

\* json.Unmarshal of one field: a key the payload does not have leaves the
\* field at its zero value
JSONField(payload, name) ==
    IF name \in DOMAIN payload THEN payload[name] ELSE 0

\* DecodeVersion -> (version, err): unmarshal, record version, record type
DecodeVersion(payload) ==
    IF payload.kind # "json"
    THEN [err |-> "ErrJSON", version |-> 0]
    ELSE IF verifyRecordVersion(payload.recordversion, DatabaseVersion) # "nil"
    THEN [err |-> verifyRecordVersion(payload.recordversion, DatabaseVersion),
          version |-> 0]
    ELSE IF verifyRecordType(payload.recordtype, RecordTypeVersion) # "nil"
    THEN [err |-> verifyRecordType(payload.recordtype, RecordTypeVersion),
          version |-> 0]
    ELSE [err |-> "nil", version |-> JSONField(payload, "version"),
          time |-> JSONField(payload, "time"),
          recordtype |-> JSONField(payload, "recordtype"),
          recordversion |-> JSONField(payload, "recordversion")]

\* json.Marshal of a User struct (u.id stands for its account fields)
MarshalUser(u) ==
    [kind |-> "json", recordtype |-> u.recordtype,
     recordversion |-> u.recordversion, id |-> u.id]

\* EncodeUser sets the record type and record version, then marshals
EncodeUser(u) ==
    MarshalUser([recordtype |-> RecordTypeUser,
                 recordversion |-> DatabaseVersion, id |-> u.id])

\* Mutant of DecodeUser: the record type is checked before the version
DecodeUser_typeFirst(payload) ==
    IF payload.kind # "json"
    THEN [err |-> "ErrJSON", id |-> 0]
    ELSE IF verifyRecordType(payload.recordtype, RecordTypeUser) # "nil"
    THEN [err |-> verifyRecordType(payload.recordtype, RecordTypeUser), id |-> 0]
    ELSE IF verifyRecordVersion(payload.recordversion, DatabaseVersion) # "nil"
    THEN [err |-> verifyRecordVersion(payload.recordversion, DatabaseVersion),
          id |-> 0]
    ELSE [err |-> "nil", id |-> JSONField(payload, "id")]

\* DecodeUser -> (user, err): unmarshal, record version, record type
DecodeUser(payload) ==
    IF payload.kind # "json"
    THEN [err |-> "ErrJSON", id |-> 0]
    ELSE IF verifyRecordVersion(payload.recordversion, DatabaseVersion) # "nil"
    THEN [err |-> verifyRecordVersion(payload.recordversion, DatabaseVersion),
          id |-> 0]
    ELSE IF verifyRecordType(payload.recordtype, RecordTypeUser) # "nil"
    THEN [err |-> verifyRecordType(payload.recordtype, RecordTypeUser), id |-> 0]
    ELSE [err |-> "nil", id |-> JSONField(payload, "id")]

\* json.Marshal of a LastPaywallAddressIndex struct
MarshalLastPaywallAddressIndex(lp) ==
    [kind |-> "json", recordtype |-> lp.recordtype,
     recordversion |-> lp.recordversion, index |-> lp.index]

EncodeLastPaywallAddressIndex(lp) ==
    MarshalLastPaywallAddressIndex([recordtype |-> RecordTypeLastPaywallAddrIdx,
                 recordversion |-> DatabaseVersion, index |-> lp.index])

\* DecodeLastPaywallAddressIndex -> (lp, err)
DecodeLastPaywallAddressIndex(payload) ==
    IF payload.kind # "json"
    THEN [err |-> "ErrJSON", index |-> 0]
    ELSE IF verifyRecordVersion(payload.recordversion, DatabaseVersion) # "nil"
    THEN [err |-> verifyRecordVersion(payload.recordversion, DatabaseVersion),
          index |-> 0]
    ELSE IF verifyRecordType(payload.recordtype, RecordTypeLastPaywallAddrIdx) # "nil"
    THEN [err |-> verifyRecordType(payload.recordtype, RecordTypeLastPaywallAddrIdx),
          index |-> 0]
    ELSE [err |-> "nil", index |-> JSONField(payload, "index")]

\* base64.StdEncoding.EncodeToString / DecodeString
B64Encode(payload) == [kind |-> "b64", data |-> payload]
B64Decode(s) ==
    IF s.kind = "b64" THEN [err |-> "nil", data |-> s.data]
    ELSE [err |-> "ErrBase64", data |-> Nil]

\* ---------------------------------------------------------------- state
VARIABLES
    backend,   \* which implementation this run is about
    rows,      \* the stored entries: a set of [key, payload] rows
    inst,      \* the store instance: encryption key, shutdown flag, handle
    ninst,     \* number of instances constructed so far
    pc,        \* per caller: position in its current call
    op,        \* per caller: the call it is making
    res,       \* per caller: the result of its finished call
    tx,        \* per caller: its open transaction (cockroachdb Put / Set)
    lastPut,   \* per key: payload and instance of the last Put that succeeded
    snapIter,  \* per caller: the leveldb snapshot it holds and its iterator
    codec,     \* the payload handed to a decoder and what the decoder returned
    keyfile,   \* the encryption-key file of the store and the writes made to it
    cache,     \* the record cache: its rows, keyed by token and version
    cacheRes   \* the last call on the record cache and its result

\* the state outside the key-value store
ext == <<snapIter, codec, keyfile, cache, cacheRes>>

vars == <<backend, rows, inst, ninst, pc, op, res, tx, lastPut, ext>>

Row(k, packed) == [key |-> k, payload |-> packed]
RowsOf(rws, k) == {r \in rws : r.key = k}
HasKey(rws, k) == RowsOf(rws, k) # {}
TheRow(rws, k) == CHOOSE r \in rws : r.key = k

NoOp == [name |-> "none", key |-> 0, val |-> Nil, late |-> FALSE]
NoRes == [err |-> "nil", val |-> Nil, has |-> FALSE, cbs |-> <<>>, snap |-> {},
          touched |-> FALSE]
NoTx == [stale |-> FALSE]
NoPut == [val |-> Nil, by |-> 0, over |-> FALSE]

\* No snapshot held: nothing captured, the iterator before the first entry
NoSnapIter == [held |-> {}, cursor |-> -1, acc |-> <<>>]
\* No decoder called
NoCodec == [payload |-> Nil, by |-> "none", decoder |-> "none", err |-> "nil"]
\* No key file on disk, none written, no call made that reads or writes it
NoKeyFile == [key |-> NoKey, writes |-> 0, last |-> "none", err |-> "nil"]
\* No call made on the record cache
NoCacheRes == [name |-> "none", err |-> "nil", arg |-> <<>>, out |-> Nil]
\* The record cache before any record is stored
PluginIDs == {"decred", "other"}
\* What the code of a plugin has done: Setup, Build(data), Exec
NoPluginData == [setup |-> FALSE, built |-> Nil, execs |-> 0]
\* No UpdateRecord is under way
NoPending == [step |-> 0, rec |-> Nil]
EmptyCache ==
    [records |-> {}, unusable |-> FALSE, plugins |-> {},
     plugindata |-> [id \in PluginIDs |-> NoPluginData],
     pending |-> NoPending]

\* The state outside the key-value store, untouched
ExtInit ==
    /\ snapIter = [p \in Procs |-> NoSnapIter]
    /\ codec = NoCodec
    /\ keyfile = NoKeyFile
    /\ cache = EmptyCache
    /\ cacheRes = NoCacheRes


\* ------------------------------------------------- the backend handles
\* ldb.DB.Get / gorm First: the stored payload of key k, through a handle
\* that may have been released
Lookup(rws, handle, k) ==
    IF handle # "open" THEN [err |-> "ErrClosed", payload |-> Nil]
    ELSE IF ~HasKey(rws, k) THEN [err |-> "ErrRecordNotFound", payload |-> Nil]
    ELSE [err |-> "nil", payload |-> TheRow(rws, k).payload]

\* Mutant of LdbWrite: the value stored before is kept next to the new one
LdbWrite_keep(rws, k, packed) == rws \cup {Row(k, packed)}

\* ldb.DB.Put: writes the value of k, replacing the one stored
LdbWrite(rws, k, packed) == (rws \ RowsOf(rws, k)) \cup {Row(k, packed)}

\* Mutant of Create: the table has no primary key on Key
Create_noPK(rws, k, packed) ==
    [err |-> "nil", rows |-> rws \cup {Row(k, packed)}]

\* tx.Create(&KeyValue{...}): INSERT; Key is the primary key of the table
Create(rws, k, packed) ==
    IF HasKey(rws, k) THEN [err |-> "ErrDuplicateKey", rows |-> rws]
    ELSE [err |-> "nil", rows |-> rws \cup {Row(k, packed)}]

\* Mutant of Update: the stored row is deleted, the new one is not yet there
Update_delete(rws, k, packed) == rws \ RowsOf(rws, k)

\* tx.Model(&keyValue).Update(&KeyValue{Payload: packed}): UPDATE ... WHERE key
Update(rws, k, packed) ==
    {IF r.key = k THEN Row(k, packed) ELSE r : r \in rws}

\* What Put / Set stores for a payload
Seal(b, i, payload) ==
    IF b = "cockroachdb0" THEN B64Encode(payload)
    ELSE Encrypt(DatabaseVersion, i.ek, payload)

\* Mutant of Unseal: Get hands back the stored bytes without opening them
Unseal_raw(b, i, packed) == [err |-> "nil", val |-> packed]

\* What Get makes of a stored payload: (err, val)
Unseal(b, i, packed) ==
    IF b = "cockroachdb0"
    THEN [err |-> B64Decode(packed).err, val |-> B64Decode(packed).data]
    ELSE IF Decrypt(i.ek, packed).err # "nil"
    THEN [err |-> Decrypt(i.ek, packed).err, val |-> Nil]
    ELSE [err |-> "nil", val |-> Decrypt(i.ek, packed).data]

\* The not-found error Get returns: leveldb and cockroachdb translate the
\* backend's error to database.ErrNotFound, part_003 returns gorm's error
NotFoundErr(b) ==
    IF b = "cockroachdb0" THEN "ErrRecordNotFound" ELSE "ErrNotFound"

\* Get after the shutdown check: lookup, not-found translation, decrypt
GetBody(b, rws, i, k) ==
    LET l == Lookup(rws, i.handle, k) IN
    IF l.err = "ErrRecordNotFound" THEN [err |-> NotFoundErr(b), val |-> Nil]
    ELSE IF l.err # "nil" THEN [err |-> l.err, val |-> Nil]
    ELSE Unseal(b, i, l.payload)

\* Mutant of Get: the shutdown flag is not read
Get_noShutdownCheck(b, rws, i, k) == GetBody(b, rws, i, k)

\* Get: the shutdown check, then the body
Get(b, rws, i, k) ==
    IF i.shutdown THEN [err |-> "ErrShutdown", val |-> Nil]
    ELSE GetBody(b, rws, i, k)

\* Put after the shutdown check, run without interleaving (leveldb: one
\* write; cockroachdb: find, create or update, commit): (err, rows)
PutBody(b, rws, i, k, payload) ==
    IF i.handle # "open" THEN [err |-> "ErrClosed", rows |-> rws]
    ELSE IF b \in LevelDBs
    THEN [err |-> "nil", rows |-> LdbWrite(rws, k, Seal(b, i, payload))]
    ELSE IF HasKey(rws, k)
    THEN [err |-> "nil", rows |-> Update(rws, k, Seal(b, i, payload))]
    ELSE Create(rws, k, Seal(b, i, payload))

Put(b, rws, i, k, payload) ==
    IF i.shutdown THEN [err |-> "ErrShutdown", rows |-> rws]
    ELSE PutBody(b, rws, i, k, payload)

\* ------------------------------------------------------------ Open
\* Mutant of NewVersionRecord: the Version field is left at its zero value
NewVersionRecord_zero(now) == EncodeVersion([version |-> 0, time |-> now])

\* The version record Open writes: Version{DatabaseVersion, time.Now()}
NewVersionRecord(now) ==
    EncodeVersion([version |-> DatabaseVersion, time |-> now])

\* The payload Open hands to Put when the store has no version record:
\* part_004 seals it first
OpenPayload(b, ek, now) ==
    IF b = "leveldb0" THEN Encrypt(DatabaseVersion, ek, NewVersionRecord(now))
    ELSE NewVersionRecord(now)

\* Mutant of OpenLevelDB: every error of Get is taken for a fresh store
OpenLevelDB_anyErr(rws, i, now) ==
    LET g == Get("leveldb", rws, i, DatabaseVersionKey) IN
    IF g.err # "nil"
    THEN Put("leveldb", rws, i, DatabaseVersionKey,
             OpenPayload("leveldb", i.ek, now))
    ELSE IF DecodeVersion(g.val).err # "nil"
    THEN [err |-> DecodeVersion(g.val).err, rows |-> rws]
    ELSE IF DecodeVersion(g.val).version # DatabaseVersion
    THEN [err |-> "ErrWrongVersion", rows |-> rws]
    ELSE [err |-> "nil", rows |-> rws]

\* leveldb.go Open, after OpenFile: (err, rows)
OpenLevelDB(rws, i, now) ==
    LET g == Get("leveldb", rws, i, DatabaseVersionKey) IN
    IF g.err = "ErrNotFound"
    THEN Put("leveldb", rws, i, DatabaseVersionKey,
             OpenPayload("leveldb", i.ek, now))
    ELSE IF g.err # "nil" THEN [err |-> g.err, rows |-> rws]
    ELSE IF DecodeVersion(g.val).err # "nil"
    THEN [err |-> DecodeVersion(g.val).err, rows |-> rws]
    ELSE IF DecodeVersion(g.val).version # DatabaseVersion
    THEN [err |-> "ErrWrongVersion", rows |-> rws]
    ELSE [err |-> "nil", rows |-> rws]

\* part_004 Open, after OpenFile: seals the record before Put seals it
\* again; on any other outcome of Get it opens the payload Get returned
OpenLevelDB0(rws, i, now) ==
    LET g == Get("leveldb0", rws, i, DatabaseVersionKey) IN
    IF g.err = "ErrNotFound"
    THEN Put("leveldb0", rws, i, DatabaseVersionKey,
             OpenPayload("leveldb0", i.ek, now))
    ELSE IF Decrypt(i.ek, g.val).err # "nil"
    THEN [err |-> "ErrWrongEncryptionKey", rows |-> rws]
    ELSE IF Decrypt(i.ek, g.val).ver # DatabaseVersion
    THEN [err |-> "ErrWrongVersion", rows |-> rws]
    ELSE [err |-> g.err, rows |-> rws]

\* cockroachdb.go Open, after gorm.Open
OpenCDB(rws, i, now) ==
    LET g == Get("cockroachdb", rws, i, DatabaseVersionKey) IN
    IF g.err = "ErrNotFound"
    THEN Put("cockroachdb", rws, i, DatabaseVersionKey,
             OpenPayload("cockroachdb", i.ek, now))
    ELSE IF g.err # "nil" THEN [err |-> g.err, rows |-> rws]
    ELSE [err |-> "nil", rows |-> rws]

OpenResult(b, rws, i, now) ==
    IF b = "leveldb" THEN OpenLevelDB(rws, i, now)
    ELSE IF b = "leveldb0" THEN OpenLevelDB0(rws, i, now)
    ELSE OpenCDB(rws, i, now)

\* ------------------------------------------------------------ Init
\* The marker a build with schema version v, running this backend's Open
\* with key ek, left in the store
MarkerOfVersion(b, v, ek) ==
    LET rec == MarshalVersion([recordtype |-> RecordTypeVersion,
                 recordversion |-> v, version |-> v, time |-> 0]) IN
    Row(DatabaseVersionKey,
        IF b = "leveldb0" THEN Encrypt(v, ek, Encrypt(v, ek, rec))
        ELSE Encrypt(v, ek, rec))

\* An entry whose ciphertext was damaged at rest
TamperedRow(k) == Row(k, Encrypt(DatabaseVersion, NoKey, Nil))

\* The store data found at start: empty (CreateLevelDB / CreateCDB), left
\* by a build of another schema version, or holding a damaged entry
InitialStores(b) ==
    IF b = "cockroachdb0" THEN {{}}
    ELSE {{}} \cup {{MarkerOfVersion(b, OtherVersion, ek)} : ek \in EncKeys}
              \cup {{TamperedRow(k)} : k \in UserKeys}

NoInstance ==
    [ek |-> NoKey, shutdown |-> FALSE, handle |-> "nil", phase |-> "none",
     openErr |-> "nil", closed |-> FALSE]

\* part_003 has no constructor: its instance is given, connected
GivenInstance ==
    [ek |-> NoKey, shutdown |-> FALSE, handle |-> "open",
     phase |-> "Bootstrapped", openErr |-> "nil", closed |-> FALSE]

Init ==
    /\ backend \in Backends
    /\ rows \in InitialStores(backend)
    /\ inst = IF backend = "cockroachdb0" THEN GivenInstance ELSE NoInstance
    /\ ninst = IF backend = "cockroachdb0" THEN 1 ELSE 0
    /\ pc = [p \in Procs |-> "idle"]
    /\ op = [p \in Procs |-> NoOp]
    /\ res = [p \in Procs |-> NoRes]
    /\ tx = [p \in Procs |-> NoTx]
    /\ lastPut = [k \in Keys |-> NoPut]
    /\ ExtInit

AllIdle == \A p \in Procs : pc[p] = "idle"

\* NewLevelDB / NewCDB up to the call of Open: a fresh instance with the
\* key loaded for it, once the previous instance is closed or failed to open
New(ek) ==
    /\ backend # "cockroachdb0"
    /\ ninst < MaxInstances
    /\ AllIdle
    /\ inst.phase \in {"none", "Failed"} \/ inst.shutdown
    /\ inst' = [ek |-> ek, shutdown |-> FALSE, handle |-> "nil",
                phase |-> "Unopened", openErr |-> "nil", closed |-> FALSE]
    /\ ninst' = ninst + 1
    /\ UNCHANGED <<backend, rows, pc, op, res, tx, lastPut, ext>>

\* The last successful Put of key k, as Open and the callers record it
NotePut(lp, rws, k, payload, n) ==
    [lp EXCEPT ![k] = [val |-> payload, by |-> n, over |-> HasKey(rws, k)]]

\* Open: connects (a new handle), then reads or writes the version record
Open ==
    /\ backend # "cockroachdb0"
    /\ AllIdle
    /\ inst.phase = "Unopened"
    /\ LET i1 == [inst EXCEPT !.handle = "open"]
           r == OpenResult(backend, rows, i1, ninst) IN
        /\ rows' = r.rows
        /\ inst' = [i1 EXCEPT !.openErr = r.err,
                       !.phase = IF r.err = "nil" THEN "Bootstrapped" ELSE "Failed"]
        /\ lastPut' = IF r.rows # rows
                      THEN NotePut(lastPut, rows, DatabaseVersionKey,
                             OpenPayload(backend, inst.ek, ninst), ninst)
                      ELSE lastPut
    /\ UNCHANGED <<backend, ninst, pc, op, res, tx, ext>>


\* ------------------------------------------------------------ callers
Usable == inst.phase = "Bootstrapped"

\* The operations the backend implements
Implements(b, name) ==
    IF b = "leveldb" THEN name \in {"Put", "Get", "Has", "GetAll", "GetSnapshot"}
    ELSE IF b = "cockroachdb0" THEN name \in {"Set", "Get"}
    ELSE name \in {"Put", "Get", "Has", "GetAll"}

\* Every operation starts the same way: RLock, read the shutdown flag,
\* RUnlock, and return ErrShutdown when it is set
Enter(p, name, k, v) ==
    /\ pc[p] = "idle"
    /\ Usable
    /\ Implements(backend, name)
    /\ op' = [op EXCEPT ![p] = [name |-> name, key |-> k, val |-> v,
                                 late |-> inst.closed]]
    /\ IF inst.shutdown
       THEN /\ pc' = [pc EXCEPT ![p] = "done"]
            /\ res' = [res EXCEPT ![p] = [NoRes EXCEPT !.err = "ErrShutdown"]]
       ELSE /\ pc' = [pc EXCEPT ![p] = "run"]
            /\ res' = [res EXCEPT ![p] = NoRes]
    /\ UNCHANGED <<backend, rows, inst, ninst, tx, lastPut, ext>>

CallPut(p, k, v) == Enter(p, IF backend = "cockroachdb0" THEN "Set" ELSE "Put", k, v)
CallGet(p, k) == Enter(p, "Get", k, Nil)
CallHas(p, k) == Enter(p, "Has", k, Nil)
CallGetAll(p) == Enter(p, "GetAll", DatabaseVersionKey, Nil)
CallGetSnapshot(p) == Enter(p, "GetSnapshot", DatabaseVersionKey, Nil)

\* The orders in which an iteration may deliver the entries: leveldb
\* iterates in key order, a SELECT without ORDER BY in any order
Orders(b, rws) ==
    {s \in [1..Cardinality(rws) -> rws] :
        /\ \A i, j \in 1..Cardinality(rws) : i # j => s[i] # s[j]
        /\ b \in LevelDBs =>
             \A i, j \in 1..Cardinality(rws) : i < j => s[i].key <= s[j].key}

\* Mutant of Walk: the error of Decrypt is not checked
RECURSIVE Walk_ignoreErr(_, _, _, _)
Walk_ignoreErr(s, n, ek, acc) ==
    IF n > Len(s) THEN [err |-> "nil", cbs |-> acc]
    ELSE Walk_ignoreErr(s, n + 1, ek,
              Append(acc, [key |-> s[n].key, val |-> Decrypt(ek, s[n].payload).data]))

\* The loop of GetAll / GetSnapshot over entries s[n..]: decrypt each and
\* hand it on; the first entry that does not open ends the loop with its error
RECURSIVE Walk(_, _, _, _)
Walk(s, n, ek, acc) ==
    IF n > Len(s) THEN [err |-> "nil", cbs |-> acc]
    ELSE IF Decrypt(ek, s[n].payload).err # "nil"
    THEN [err |-> Decrypt(ek, s[n].payload).err, cbs |-> acc]
    ELSE Walk(s, n + 1, ek,
              Append(acc, [key |-> s[n].key, val |-> Decrypt(ek, s[n].payload).data]))

\* Mutant of GetAllBody: the loop starts at the second entry
GetAllBody_skipFirst(rws, i, order) ==
    IF i.handle # "open" THEN [err |-> "ErrClosed", cbs |-> <<>>]
    ELSE Walk(order, 2, i.ek, <<>>)

\* GetAll after the shutdown check: (err, cbs), cbs the callback invocations
GetAllBody(rws, i, order) ==
    IF i.handle # "open" THEN [err |-> "ErrClosed", cbs |-> <<>>]
    ELSE Walk(order, 1, i.ek, <<>>)

\* snapshot.Snapshot[key] = decValue, for the entries in turn
SnapshotMap(cbs) ==
    {[key |-> k, val |-> cbs[CHOOSE n \in 1..Len(cbs) :
                              /\ cbs[n].key = k
                              /\ \A m \in 1..Len(cbs) : cbs[m].key = k => m <= n].val] :
        k \in {cbs[n].key : n \in 1..Len(cbs)}}

\* Mutant of GetSnapshotBody: the version record is left out of the map
GetSnapshotBody_noMarker(rws, i, order) ==
    IF i.handle # "open" THEN [err |-> "ErrClosed", snap |-> {}]
    ELSE IF Walk(order, 1, i.ek, <<>>).err # "nil"
    THEN [err |-> Walk(order, 1, i.ek, <<>>).err, snap |-> {}]
    ELSE [err |-> "nil",
          snap |-> {x \in SnapshotMap(Walk(order, 1, i.ek, <<>>).cbs) :
                       x.key # DatabaseVersionKey}]

\* GetSnapshot after the shutdown check: (err, snap); Version is DatabaseVersion
GetSnapshotBody(rws, i, order) ==
    IF i.handle # "open" THEN [err |-> "ErrClosed", snap |-> {}]
    ELSE IF Walk(order, 1, i.ek, <<>>).err # "nil"
    THEN [err |-> Walk(order, 1, i.ek, <<>>).err, snap |-> {}]
    ELSE [err |-> "nil", snap |-> SnapshotMap(Walk(order, 1, i.ek, <<>>).cbs)]

\* Mutant of HasBody: an entry counts only when it opens with the key
HasBody_decrypt(rws, i, k) ==
    IF i.handle # "open" THEN [err |-> "ErrClosed", has |-> FALSE]
    ELSE [err |-> "nil",
          has |-> HasKey(rws, k) /\ Decrypt(i.ek, TheRow(rws, k).payload).err = "nil"]

\* Has after the shutdown check: (err, has)
HasBody(rws, i, k) ==
    IF i.handle # "open" THEN [err |-> "ErrClosed", has |-> FALSE]
    ELSE [err |-> "nil", has |-> HasKey(rws, k)]

Finish(p, r) ==
    /\ pc' = [pc EXCEPT ![p] = "done"]
    /\ res' = [res EXCEPT ![p] = r]

\* leveldb: each operation is one call on the handle
LdbStep(p) ==
    /\ pc[p] = "run"
    /\ backend \in LevelDBs
    /\ \/ /\ op[p].name = "Put"
          /\ LET r == PutBody(backend, rows, inst, op[p].key, op[p].val) IN
              /\ rows' = r.rows
              /\ Finish(p, [NoRes EXCEPT !.err = r.err, !.touched = TRUE])
              /\ lastPut' = IF r.err = "nil"
                            THEN NotePut(lastPut, rows, op[p].key, op[p].val, ninst)
                            ELSE lastPut
       \/ /\ op[p].name = "Get"
          /\ LET r == GetBody(backend, rows, inst, op[p].key) IN
              Finish(p, [NoRes EXCEPT !.err = r.err, !.val = r.val, !.touched = TRUE])
          /\ UNCHANGED <<rows, lastPut>>
       \/ /\ op[p].name = "Has"
          /\ LET r == HasBody(rows, inst, op[p].key) IN
              Finish(p, [NoRes EXCEPT !.err = r.err, !.has = r.has, !.touched = TRUE])
          /\ UNCHANGED <<rows, lastPut>>
       \/ /\ op[p].name = "GetAll"
          /\ \E order \in Orders(backend, rows) :
              LET r == GetAllBody(rows, inst, order) IN
              Finish(p, [NoRes EXCEPT !.err = r.err, !.cbs = r.cbs, !.touched = TRUE])
          /\ UNCHANGED <<rows, lastPut>>
       \/ /\ op[p].name = "GetSnapshot"
          /\ \E order \in Orders(backend, rows) :
              LET r == GetSnapshotBody(rows, inst, order) IN
              Finish(p, [NoRes EXCEPT !.err = r.err, !.snap = r.snap, !.touched = TRUE])
          /\ UNCHANGED <<rows, lastPut>>
    /\ UNCHANGED <<backend, inst, ninst, op, tx, ext>>

\* cockroachdb Get, Has, GetAll and part_003 Get: one query each
CdbRead(p) ==
    /\ pc[p] = "run"
    /\ backend \notin LevelDBs
    /\ \/ /\ op[p].name = "Get"
          /\ LET r == GetBody(backend, rows, inst, op[p].key) IN
              Finish(p, [NoRes EXCEPT !.err = r.err, !.val = r.val, !.touched = TRUE])
       \/ /\ op[p].name = "Has"
          /\ LET r == HasBody(rows, inst, op[p].key) IN
              Finish(p, [NoRes EXCEPT !.err = r.err, !.has = r.has, !.touched = TRUE])
       \/ /\ op[p].name = "GetAll"
          /\ \E order \in Orders(backend, rows) :
              LET r == GetAllBody(rows, inst, order) IN
              Finish(p, [NoRes EXCEPT !.err = r.err, !.cbs = r.cbs, !.touched = TRUE])
    /\ UNCHANGED <<backend, rows, inst, ninst, op, tx, lastPut, ext>>

\* ------------------------------------- cockroachdb Put / part_003 Set
\* Another transaction holds an uncommitted write of key k: a statement on
\* k waits for it
Intent(p, k) == \E q \in Procs \ {p} : pc[q] \in {"txCreated", "txUpdated"} /\ op[q].key = k

\* A statement of a transaction begun before Close may still run on the
\* connection the transaction holds, or fail on the closed database
Live == IF inst.handle = "open" THEN {TRUE} ELSE {TRUE, FALSE}

\* A committed write of the key since this transaction read it: the
\* serializable store refuses the transaction's own write
TxConflict(t) == t.stale

\* tx := Begin(); seal; tx.Where("key = ?", key).First(&keyValue)
TxBegin(p) ==
    /\ pc[p] = "run"
    /\ op[p].name \in {"Put", "Set"}
    /\ backend \notin LevelDBs
    /\ LET l == Lookup(rows, inst.handle, op[p].key) IN
        IF l.err = "ErrClosed"
        THEN /\ Finish(p, [NoRes EXCEPT !.err = "ErrClosed", !.touched = TRUE])
             /\ tx' = tx
        ELSE /\ ~Intent(p, op[p].key)
             /\ IF l.err = "nil"
                THEN /\ pc' = [pc EXCEPT ![p] = "txFound"]
                     /\ res' = [res EXCEPT ![p].touched = TRUE]
                ELSE IF backend = "cockroachdb0"
                THEN Finish(p, [NoRes EXCEPT !.err = l.err, !.touched = TRUE])
                ELSE /\ pc' = [pc EXCEPT ![p] = "txAbsent"]
                     /\ res' = [res EXCEPT ![p].touched = TRUE]
             /\ tx' = [tx EXCEPT ![p] = [stale |-> FALSE]]
    /\ UNCHANGED <<backend, rows, inst, ninst, op, lastPut, ext>>

\* Mutant of TxWrite: a refused statement is not rolled back, what it wrote
\* stays in the table
TxWrite_noRollback(p) ==
    /\ pc[p] \in {"txFound", "txAbsent"}
    /\ ~Intent(p, op[p].key)
    /\ \E live \in Live :
        LET sealed == Seal(backend, inst, op[p].val)
            err == IF ~live THEN "ErrClosed"
                   ELSE IF pc[p] = "txAbsent"
                   THEN Create(rows, op[p].key, sealed).err
                   ELSE IF TxConflict(tx[p]) THEN "ErrRetry" ELSE "nil" IN
        IF err # "nil"
        THEN /\ Finish(p, [NoRes EXCEPT !.err = err, !.touched = TRUE])
             /\ tx' = [tx EXCEPT ![p] = NoTx]
             /\ rows' = Update(rows, op[p].key, sealed)
        ELSE /\ pc' = [pc EXCEPT ![p] = IF pc[p] = "txAbsent"
                                          THEN "txCreated" ELSE "txUpdated"]
             /\ UNCHANGED <<res, tx, rows>>
    /\ UNCHANGED <<backend, inst, ninst, op, lastPut, ext>>

\* tx.Create(...) when the key was absent, tx.Model(...).Update(...) when
\* it was found; an error rolls the transaction back
TxWrite(p) ==
    /\ pc[p] \in {"txFound", "txAbsent"}
    /\ ~Intent(p, op[p].key)
    /\ \E live \in Live :
        LET sealed == Seal(backend, inst, op[p].val)
            err == IF ~live THEN "ErrClosed"
                   ELSE IF pc[p] = "txAbsent"
                   THEN Create(rows, op[p].key, sealed).err
                   ELSE IF TxConflict(tx[p]) THEN "ErrRetry" ELSE "nil" IN
        IF err # "nil"
        THEN /\ Finish(p, [NoRes EXCEPT !.err = err, !.touched = TRUE])
             /\ tx' = [tx EXCEPT ![p] = NoTx]
        ELSE /\ pc' = [pc EXCEPT ![p] = IF pc[p] = "txAbsent"
                                          THEN "txCreated" ELSE "txUpdated"]
             /\ UNCHANGED <<res, tx>>
    /\ UNCHANGED <<backend, rows, inst, ninst, op, lastPut, ext>>


\* tx.Commit(): the write becomes the stored value; the transactions that
\* read the key before it are now stale
TxCommit(p) ==
    /\ pc[p] \in {"txCreated", "txUpdated"}
    /\ \E live \in Live :
        IF ~live
        THEN /\ Finish(p, [NoRes EXCEPT !.err = "ErrClosed", !.touched = TRUE])
             /\ UNCHANGED <<rows, lastPut>>
             /\ tx' = [tx EXCEPT ![p] = NoTx]
        ELSE LET sealed == Seal(backend, inst, op[p].val) IN
             /\ rows' = IF pc[p] = "txCreated"
                        THEN Create(rows, op[p].key, sealed).rows
                        ELSE Update(rows, op[p].key, sealed)
             /\ Finish(p, [NoRes EXCEPT !.touched = TRUE])
             /\ lastPut' = NotePut(lastPut, rows, op[p].key, op[p].val, ninst)
             /\ tx' = [q \in Procs |->
                         IF q # p /\ pc[q] \in {"txFound", "txAbsent"}
                                  /\ op[q].key = op[p].key
                         THEN [stale |-> TRUE]
                         ELSE IF q = p THEN NoTx ELSE tx[q]]
    /\ UNCHANGED <<backend, inst, ninst, op, ext>>

\* Mutant of CloseInst: the handle is released, the flag is not set
CloseInst_noFlag(i) == [i EXCEPT !.handle = "closed"]

\* What Close does to the instance: l.shutdown = true; l.userdb.Close()
CloseInst(i) == [i EXCEPT !.shutdown = TRUE, !.handle = "closed"]

\* Close: Lock, set the shutdown flag, release the handle, Unlock
Close(p) ==
    /\ pc[p] = "idle"
    /\ Usable
    /\ backend # "cockroachdb0"
    /\ inst' = [CloseInst(inst) EXCEPT !.closed = TRUE]
    /\ UNCHANGED <<backend, rows, ninst, pc, op, res, tx, lastPut, ext>>

\* The caller takes the result of its call
Return(p) ==
    /\ pc[p] = "done"
    /\ pc' = [pc EXCEPT ![p] = "idle"]
    /\ op' = [op EXCEPT ![p] = NoOp]
    /\ res' = [res EXCEPT ![p] = NoRes]
    /\ UNCHANGED <<backend, rows, inst, ninst, tx, lastPut, ext>>

\* One caller at a time: every call returns before the next one starts
Next ==
    \/ \E ek \in EncKeys : New(ek)
    \/ Open
    \/ \E k \in Keys, v \in UserPayloads : CallPut(1, k, v)
    \/ \E k \in Keys : CallGet(1, k)
    \/ \E k \in Keys : CallHas(1, k)
    \/ CallGetAll(1)
    \/ CallGetSnapshot(1)
    \/ LdbStep(1)
    \/ CdbRead(1)
    \/ TxBegin(1)
    \/ TxWrite(1)
    \/ TxCommit(1)
    \/ Close(1)
    \/ Return(1)

Spec == Init /\ [][Next]_vars

\* ------------------------------------------------ concurrent callers
\* The stores a bootstrapped instance with key 1 works on after Open and
\* some Puts: the marker, and at most one entry per user key
StoredEntries(b, i) ==
    {f \in [UserKeys -> UserPayloads \cup {Nil}] : TRUE}

EntryRows(b, i, f) ==
    {Row(k, Seal(b, i, f[k])) : k \in {x \in UserKeys : f[x] # Nil}}

OpenInstance ==
    [ek |-> 1, shutdown |-> FALSE, handle |-> "open",
     phase |-> "Bootstrapped", openErr |-> "nil", closed |-> FALSE]

InitConc ==
    /\ backend \in {"leveldb", "cockroachdb"}
    /\ inst = OpenInstance
    /\ ninst = 1
    /\ \E f \in StoredEntries(backend, inst) :
        /\ rows = {Row(DatabaseVersionKey,
                       Seal(backend, inst, OpenPayload(backend, 1, 1)))}
                  \cup EntryRows(backend, inst, f)
        /\ lastPut = [k \in Keys |->
                        IF k = DatabaseVersionKey
                        THEN [val |-> OpenPayload(backend, 1, 1), by |-> 1,
                              over |-> FALSE]
                        ELSE IF f[k] = Nil THEN NoPut
                        ELSE [val |-> f[k], by |-> 1, over |-> FALSE]]
    /\ pc = [p \in Procs |-> "idle"]
    /\ op = [p \in Procs |-> NoOp]
    /\ res = [p \in Procs |-> NoRes]
    /\ tx = [p \in Procs |-> NoTx]
    /\ ExtInit

NextConc ==
    \/ \E p \in Procs, k \in UserKeys, v \in UserPayloads : CallPut(p, k, v)
    \/ \E p \in Procs, k \in UserKeys : CallGet(p, k)
    \/ \E p \in Procs : LdbStep(p)
    \/ \E p \in Procs : CdbRead(p)
    \/ \E p \in Procs : TxBegin(p)
    \/ \E p \in Procs : TxWrite(p)
    \/ \E p \in Procs : TxCommit(p)
    \/ \E p \in Procs : Close(p)

SpecConc == InitConc /\ [][NextConc]_vars


\* ------------------------------------- GetSnapshot with concurrent Puts
\* Mutant of SnapSource: the iterator runs over the live database
SnapSource_live(held, live) == live

\* What the iterator of GetSnapshot runs over: userdbSnapshot, the snapshot
\* taken by l.userdb.GetSnapshot(), not the database
SnapSource(held, live) == held

\* userdbSnapshot, err := l.userdb.GetSnapshot(): the store as it is now
SnapTake(p) ==
    /\ pc[p] = "run"
    /\ op[p].name = "GetSnapshot"
    /\ backend = "leveldb"
    /\ IF inst.handle # "open"
       THEN /\ Finish(p, [NoRes EXCEPT !.err = "ErrClosed", !.touched = TRUE])
            /\ UNCHANGED snapIter
       ELSE /\ pc' = [pc EXCEPT ![p] = "snapIter"]
            /\ res' = [res EXCEPT ![p].touched = TRUE]
            /\ snapIter' = [snapIter EXCEPT ![p] =
                              [held |-> rows, cursor |-> -1, acc |-> <<>>]]
    /\ UNCHANGED <<backend, rows, inst, ninst, op, tx, lastPut,
                   codec, keyfile, cache, cacheRes>>

\* The keys the iterator has not delivered yet, in key order
KeysAhead(src, cursor) == {r.key : r \in {x \in src : x.key > cursor}}
MinKey(ks) == CHOOSE k \in ks : \A j \in ks : k <= j

\* for iter.Next() { decrypt; snapshot.Snapshot[key] = decValue }: one pass
\* of the loop, or the return after the last entry
SnapNext(p) ==
    /\ pc[p] = "snapIter"
    /\ LET src == SnapSource(snapIter[p].held, rows)
           ahead == KeysAhead(src, snapIter[p].cursor) IN
        IF ahead = {}
        THEN /\ Finish(p, [NoRes EXCEPT !.snap = SnapshotMap(snapIter[p].acc),
                                        !.touched = TRUE])
             /\ UNCHANGED snapIter
        ELSE LET k == MinKey(ahead)
                 d == Decrypt(inst.ek, TheRow(src, k).payload) IN
             IF d.err # "nil"
             THEN /\ Finish(p, [NoRes EXCEPT !.err = d.err, !.touched = TRUE])
                  /\ UNCHANGED snapIter
             ELSE /\ snapIter' = [snapIter EXCEPT ![p] =
                        [@ EXCEPT !.cursor = k,
                                  !.acc = Append(@, [key |-> k, val |-> d.data])]]
                  /\ UNCHANGED <<pc, res>>
    /\ UNCHANGED <<backend, rows, inst, ninst, op, tx, lastPut,
                   codec, keyfile, cache, cacheRes>>

\* A Put of a writer: one call on the handle
LdbPut(p) == op[p].name = "Put" /\ LdbStep(p)

\* Caller 1 takes a snapshot while caller 2 Puts, one Put after the other,
\* to any key
InitSnap == InitConc /\ backend = "leveldb"

SnapWriters == {2}

NextSnap ==
    \/ CallGetSnapshot(1)
    \/ SnapTake(1)
    \/ SnapNext(1)
    \/ \E p \in SnapWriters, k \in Keys, v \in UserPayloads : CallPut(p, k, v)
    \/ \E p \in SnapWriters : LdbPut(p)
    \/ \E p \in SnapWriters : Return(p)

SpecSnap == InitSnap /\ [][NextSnap]_vars


\* ------------------------------------------------- the record codecs
\* The key-value store's state
store == <<backend, rows, inst, ninst, pc, op, res, tx, lastPut>>

\* No store constructed, no caller at work
StoreIdle ==
    /\ backend = "leveldb"
    /\ rows = {}
    /\ inst = NoInstance
    /\ ninst = 0
    /\ pc = [p \in Procs |-> "idle"]
    /\ op = [p \in Procs |-> NoOp]
    /\ res = [p \in Procs |-> NoRes]
    /\ tx = [p \in Procs |-> NoTx]
    /\ lastPut = [k \in Keys |-> NoPut]

RecordTypes ==
    {RecordTypeInvalid, RecordTypeUser, RecordTypeVersion,
     RecordTypeLastPaywallAddrIdx}

\* The record versions a stored payload may carry: none, this build's,
\* another build's
RecordVersions == {0, DatabaseVersion, OtherVersion}

\* The payloads a decoder may be handed: JSON of any of the three structs
\* with any envelope, and bytes that are not JSON
StoredPayloads ==
    {MarshalVersion([recordtype |-> t, recordversion |-> v,
                     version |-> DatabaseVersion, time |-> 0]) :
        t \in RecordTypes, v \in RecordVersions}
    \cup {MarshalUser([recordtype |-> t[1], recordversion |-> t[2], id |-> t[3]]) :
        t \in RecordTypes \X RecordVersions \X (1..NumPayloads)}
    \cup {MarshalLastPaywallAddressIndex(
              [recordtype |-> t[1], recordversion |-> t[2], index |-> t[3]]) :
        t \in RecordTypes \X RecordVersions \X (1..NumPayloads)}
    \cup UserPayloads

Loaded(payload, by) ==
    /\ codec' = [payload |-> payload, by |-> by, decoder |-> "none", err |-> "nil"]
    /\ UNCHANGED <<store, snapIter, keyfile, cache, cacheRes>>

CallEncodeVersion ==
    \E v \in {DatabaseVersion, OtherVersion}, t \in 0..1 :
        Loaded(EncodeVersion([version |-> v, time |-> t]), "version")

CallEncodeUser ==
    \E n \in 1..NumPayloads : Loaded(EncodeUser([id |-> n]), "user")

CallEncodeLastPaywallAddressIndex ==
    \E n \in 1..NumPayloads :
        Loaded(EncodeLastPaywallAddressIndex([index |-> n]), "lastpaywall")

\* A payload read back from the store
ReadStored == \E payload \in StoredPayloads : Loaded(payload, "none")

Decoded(decoder, err) ==
    /\ codec.payload # Nil
    /\ codec' = [codec EXCEPT !.decoder = decoder, !.err = err]
    /\ UNCHANGED <<store, snapIter, keyfile, cache, cacheRes>>

CallDecodeVersion == Decoded("version", DecodeVersion(codec.payload).err)
CallDecodeUser == Decoded("user", DecodeUser(codec.payload).err)
CallDecodeLastPaywallAddressIndex ==
    Decoded("lastpaywall", DecodeLastPaywallAddressIndex(codec.payload).err)

InitCodec == StoreIdle /\ ExtInit

NextCodec ==
    \/ CallEncodeVersion
    \/ CallEncodeUser
    \/ CallEncodeLastPaywallAddressIndex
    \/ ReadStored
    \/ CallDecodeVersion
    \/ CallDecodeUser
    \/ CallDecodeLastPaywallAddressIndex

SpecCodec == InitCodec /\ [][NextCodec]_vars


\* ------------------------------------------------ the encryption-key file
\* Mutant of ResolveEncryptionKey: the key is generated and saved whether
\* or not the file exists
ResolveEncryptionKey_always(kf, newKey) ==
    [kf EXCEPT !.key = newKey, !.writes = @ + 1]

\* ResolveEncryptionKey: if the file does not exist, sbox.NewKey() and
\* SaveEncryptionKey; newKey is the key NewKey would generate
ResolveEncryptionKey(kf, newKey) ==
    IF kf.key = NoKey
    THEN [kf EXCEPT !.key = newKey, !.writes = @ + 1]
    ELSE kf

\* LoadEncryptionKey: ReadFile and decode, (key, err)
LoadEncryptionKey(kf) ==
    IF kf.key = NoKey THEN [err |-> "ErrReadFile", key |-> NoKey]
    ELSE [err |-> "nil", key |-> kf.key]

\* A call of ResolveEncryptionKey on its own
CallResolveEncryptionKey ==
    /\ \E newKey \in EncKeys :
        keyfile' = [ResolveEncryptionKey(keyfile, newKey) EXCEPT
                       !.last = "ResolveEncryptionKey", !.err = "nil"]
    /\ UNCHANGED <<store, snapIter, codec, cache, cacheRes>>

\* CreateCDB: creates database and user if they do not exist, resolves the
\* encryption key, creates the tables if they do not exist; the rows of an
\* existing table stay
CreateCDB ==
    /\ backend = "cockroachdb"
    /\ \E newKey \in EncKeys :
        keyfile' = [ResolveEncryptionKey(keyfile, newKey) EXCEPT
                       !.last = "CreateCDB", !.err = "nil"]
    /\ UNCHANGED <<store, snapIter, codec, cache, cacheRes>>

\* NewCDB up to its call of Open: loads the key from the key file and
\* fails with ErrLoadingEncryptionKey when that fails
NewCDB ==
    /\ backend = "cockroachdb"
    /\ ninst < MaxInstances
    /\ AllIdle
    /\ inst.phase \in {"none", "Failed"} \/ inst.shutdown
    /\ LET l == LoadEncryptionKey(keyfile) IN
        IF l.err # "nil"
        THEN /\ keyfile' = [keyfile EXCEPT !.last = "NewCDB",
                                           !.err = "ErrLoadingEncryptionKey"]
             /\ UNCHANGED <<inst, ninst>>
        ELSE /\ keyfile' = [keyfile EXCEPT !.last = "NewCDB", !.err = "nil"]
             /\ inst' = [ek |-> l.key, shutdown |-> FALSE, handle |-> "nil",
                         phase |-> "Unopened", openErr |-> "nil", closed |-> FALSE]
             /\ ninst' = ninst + 1
    /\ UNCHANGED <<backend, rows, pc, op, res, tx, lastPut,
                   snapIter, codec, cache, cacheRes>>

\* A cockroachdb store, new or left by an earlier installation, with no
\* key file yet
InitKey ==
    /\ backend = "cockroachdb"
    /\ rows \in InitialStores(backend)
    /\ inst = NoInstance
    /\ ninst = 0
    /\ pc = [p \in Procs |-> "idle"]
    /\ op = [p \in Procs |-> NoOp]
    /\ res = [p \in Procs |-> NoRes]
    /\ tx = [p \in Procs |-> NoTx]
    /\ lastPut = [k \in Keys |-> NoPut]
    /\ ExtInit

NextKey ==
    \/ CallResolveEncryptionKey
    \/ CreateCDB
    \/ NewCDB
    \/ Open
    \/ \E k \in UserKeys, v \in UserPayloads : CallPut(1, k, v)
    \/ \E k \in UserKeys : CallGet(1, k)
    \/ CdbRead(1)
    \/ TxBegin(1)
    \/ TxWrite(1)
    \/ TxCommit(1)
    \/ Close(1)
    \/ Return(1)

SpecKey == InitKey /\ [][NextKey]_vars


\* ------------------------------------------------------ the record cache
\* cache.RecordStatusT
RecordStatusInvalid == 0
RecordStatusNotFound == 1
RecordStatusNotReviewed == 2
RecordStatusCensored == 3
RecordStatusPublic == 4
RecordStatusUnreviewedChanges == 5
RecordStatusArchived == 6

\* The statuses a stored record may have: all but the NotFound sentinel
PersistedStatuses ==
    {RecordStatusInvalid, RecordStatusNotReviewed, RecordStatusCensored,
     RecordStatusPublic, RecordStatusUnreviewedChanges, RecordStatusArchived}
\* The status values a caller may pass, one of them outside the enum
StatusValues == PersistedStatuses \cup {RecordStatusNotFound, RecordStatusArchived + 1}

\* Tokens and versions are strings; a version is a decimal number
Tokens == {<<"a">>, <<"b">>}
Versions == {<<"1">>, <<"2">>}
InitialVersion == <<"1">>

Digits == <<"0", "1", "2", "3", "4", "5", "6", "7", "8", "9">>
DigitVal(c) == (CHOOSE n \in 1..10 : Digits[n] = c) - 1
RECURSIVE VersionNum(_)
\* strconv of a version string
VersionNum(v) ==
    IF Len(v) = 0 THEN 0
    ELSE 10 * VersionNum(SubSeq(v, 1, Len(v) - 1)) + DigitVal(v[Len(v)])

\* The cache.Record a caller passes for content c of (token, version)
MakeRecord(token, version, status, c) ==
    [version |-> version, status |-> status, timestamp |-> c,
     censorshiprecord |-> [token |-> token, merkle |-> c, signature |-> c],
     metadata |-> <<[id |-> 1, payload |-> c]>>,
     files |-> <<[name |-> "index.md", mime |-> "text/plain", digest |-> c,
                  payload |-> c]>>]

\* Mutant of convertMDStreamFromCache: the stream identity is not copied
convertMDStreamFromCache_noID(ms) == [id |-> 0, payload |-> ms.payload]

convertMDStreamFromCache(ms) == [id |-> ms.id, payload |-> ms.payload]

\* Mutant of convertRecordFromCache: the status is part of the key
convertRecordFromCache_statusKey(r) ==
    [key |-> r.censorshiprecord.token \o r.version \o <<r.status>>,
     token |-> r.censorshiprecord.token,
     version |-> r.version,
     status |-> r.status,
     timestamp |-> r.timestamp,
     merkle |-> r.censorshiprecord.merkle,
     signature |-> r.censorshiprecord.signature,
     metadata |-> [n \in 1..Len(r.metadata) |-> convertMDStreamFromCache(r.metadata[n])],
     files |-> [n \in 1..Len(r.files) |->
                  [name |-> r.files[n].name, mime |-> r.files[n].mime,
                   digest |-> r.files[n].digest, payload |-> r.files[n].payload]]]

\* Mutant of convertRecordFromCache: the version column is left at its default
convertRecordFromCache_noVersion(r) ==
    [key |-> r.censorshiprecord.token \o r.version,
     token |-> r.censorshiprecord.token,
     version |-> InitialVersion,
     status |-> r.status,
     timestamp |-> r.timestamp,
     merkle |-> r.censorshiprecord.merkle,
     signature |-> r.censorshiprecord.signature,
     metadata |-> [n \in 1..Len(r.metadata) |-> convertMDStreamFromCache(r.metadata[n])],
     files |-> [n \in 1..Len(r.files) |->
                  [name |-> r.files[n].name, mime |-> r.files[n].mime,
                   digest |-> r.files[n].digest, payload |-> r.files[n].payload]]]

\* convertRecordFromCache: the database row of a cache.Record; its Key is
\* the token followed by the version
convertRecordFromCache(r) ==
    [key |-> r.censorshiprecord.token \o r.version,
     token |-> r.censorshiprecord.token,
     version |-> r.version,
     status |-> r.status,
     timestamp |-> r.timestamp,
     merkle |-> r.censorshiprecord.merkle,
     signature |-> r.censorshiprecord.signature,
     metadata |-> [n \in 1..Len(r.metadata) |-> convertMDStreamFromCache(r.metadata[n])],
     files |-> [n \in 1..Len(r.files) |->
                  [name |-> r.files[n].name, mime |-> r.files[n].mime,
                   digest |-> r.files[n].digest, payload |-> r.files[n].payload]]]

\* Mutant of convertRecordToCache: the status is not copied
convertRecordToCache_noStatus(r) ==
    [version |-> r.version, status |-> RecordStatusInvalid,
     timestamp |-> r.timestamp,
     censorshiprecord |-> [token |-> r.token, merkle |-> r.merkle,
                           signature |-> r.signature],
     metadata |-> [n \in 1..Len(r.metadata) |->
                     [id |-> r.metadata[n].id, payload |-> r.metadata[n].payload]],
     files |-> [n \in 1..Len(r.files) |->
                  [name |-> r.files[n].name, mime |-> r.files[n].mime,
                   digest |-> r.files[n].digest, payload |-> r.files[n].payload]]]

\* convertRecordToCache: the cache.Record of a database row
convertRecordToCache(r) ==
    [version |-> r.version, status |-> r.status, timestamp |-> r.timestamp,
     censorshiprecord |-> [token |-> r.token, merkle |-> r.merkle,
                           signature |-> r.signature],
     metadata |-> [n \in 1..Len(r.metadata) |->
                     [id |-> r.metadata[n].id, payload |-> r.metadata[n].payload]],
     files |-> [n \in 1..Len(r.files) |->
                  [name |-> r.files[n].name, mime |-> r.files[n].mime,
                   digest |-> r.files[n].digest, payload |-> r.files[n].payload]]]


\* The rows of a token, and the one with the greatest revision number
VersionsOf(c, token) == {r \in c.records : r.token = token}
RECURSIVE TextLess(_, _)
\* a sorts before b as text, character by character
TextLess(a, b) ==
    IF Len(a) = 0 THEN Len(b) > 0
    ELSE IF Len(b) = 0 THEN FALSE
    ELSE IF a[1] # b[1] THEN DigitVal(a[1]) < DigitVal(b[1])
    ELSE TextLess(Tail(a), Tail(b))

\* Mutant of LatestRow: versions are ordered as text
LatestRow_text(c, token) ==
    CHOOSE r \in VersionsOf(c, token) :
        \A q \in VersionsOf(c, token) : ~TextLess(r.version, q.version)

LatestRow(c, token) ==
    CHOOSE r \in VersionsOf(c, token) :
        \A q \in VersionsOf(c, token) : VersionNum(q.version) <= VersionNum(r.version)
StoredTokens(c) == {r.token : r \in c.records}

\* Cache.Record
Record(c, token) ==
    IF c.unusable THEN [err |-> "ErrUnusable", out |-> Nil]
    ELSE IF VersionsOf(c, token) = {} THEN [err |-> "ErrRecordNotFound", out |-> Nil]
    ELSE [err |-> "nil", out |-> convertRecordToCache(LatestRow(c, token))]

\* Cache.RecordVersion
RecordVersion(c, token, version) ==
    LET hit == {r \in VersionsOf(c, token) : r.version = version}
    IN  IF c.unusable THEN [err |-> "ErrUnusable", out |-> Nil]
        ELSE IF hit = {} THEN [err |-> "ErrRecordNotFound", out |-> Nil]
        ELSE [err |-> "nil", out |-> convertRecordToCache(CHOOSE r \in hit : TRUE)]

\* Cache.Inventory: the latest version of every token
Inventory(c) ==
    IF c.unusable THEN [err |-> "ErrUnusable", out |-> {}]
    ELSE [err |-> "nil",
          out |-> {convertRecordToCache(LatestRow(c, t)) : t \in StoredTokens(c)}]

\* Cache.InventoryStats: recomputed from the stored rows, latest versions only
InventoryStats(c) ==
    LET latest == {LatestRow(c, t) : t \in StoredTokens(c)}
        n(s) == Cardinality({r \in latest : r.status = s})
    IN  IF c.unusable THEN [err |-> "ErrUnusable", out |-> Nil]
        ELSE [err |-> "nil",
              out |-> [Invalid |-> n(RecordStatusInvalid),
                       NotReviewed |-> n(RecordStatusNotReviewed),
                       Censored |-> n(RecordStatusCensored),
                       Public |-> n(RecordStatusPublic),
                       UnreviewedChanges |-> n(RecordStatusUnreviewedChanges),
                       Archived |-> n(RecordStatusArchived),
                       Total |-> Cardinality(latest)]]

\* An insert of one row; the key is the primary key of the table
CreateRecord(c, row) ==
    IF \E r \in c.records : r.key = row.key
    THEN [err |-> "ErrDuplicate", cache |-> c]
    ELSE [err |-> "nil", cache |-> [c EXCEPT !.records = @ \cup {row}]]

\* Mutant of NewRecord: the status is not looked at
NewRecord_anyStatus(c, r) ==
    IF c.unusable THEN [err |-> "ErrUnusable", cache |-> c]
    ELSE CreateRecord(c, convertRecordFromCache(r))

\* Cache.NewRecord
NewRecord(c, r) ==
    IF c.unusable THEN [err |-> "ErrUnusable", cache |-> c]
    ELSE IF r.status \notin PersistedStatuses THEN [err |-> "ErrInvalidStatus", cache |-> c]
    ELSE CreateRecord(c, convertRecordFromCache(r))

\* Mutant of UpdateRecord: the new version replaces the rows of the token
UpdateRecord_replace(c, r) ==
    IF c.unusable THEN [err |-> "ErrUnusable", cache |-> c]
    ELSE IF r.status \notin PersistedStatuses THEN [err |-> "ErrInvalidStatus", cache |-> c]
    ELSE IF VersionsOf(c, r.censorshiprecord.token) = {}
    THEN [err |-> "ErrRecordNotFound", cache |-> c]
    ELSE IF \E q \in c.records : q.key = convertRecordFromCache(r).key
    THEN [err |-> "ErrDuplicate", cache |-> c]
    ELSE [err |-> "nil",
          cache |-> [c EXCEPT !.records =
                       (@ \ VersionsOf(c, r.censorshiprecord.token))
                       \cup {convertRecordFromCache(r)}]]

\* Cache.UpdateRecord: a new version row of a token that is stored
UpdateRecord(c, r) ==
    IF c.unusable THEN [err |-> "ErrUnusable", cache |-> c]
    ELSE IF r.status \notin PersistedStatuses THEN [err |-> "ErrInvalidStatus", cache |-> c]
    ELSE IF VersionsOf(c, r.censorshiprecord.token) = {}
    THEN [err |-> "ErrRecordNotFound", cache |-> c]
    ELSE CreateRecord(c, convertRecordFromCache(r))

\* Mutant of UpdateRecordStatus: the status change is stored as a new row
UpdateRecordStatus_newRow(c, token, version, status, timestamp, md) ==
    LET hit == {r \in VersionsOf(c, token) : r.version = version}
        old == CHOOSE r \in hit : TRUE
        new == [old EXCEPT !.status = status, !.timestamp = timestamp,
                           !.metadata = [n \in 1..Len(md) |->
                                           convertMDStreamFromCache(md[n])]]
    IN  IF c.unusable THEN [err |-> "ErrUnusable", cache |-> c]
        ELSE IF status \notin PersistedStatuses
        THEN [err |-> "ErrInvalidStatus", cache |-> c]
        ELSE IF hit = {} THEN [err |-> "ErrRecordNotFound", cache |-> c]
        ELSE [err |-> "nil", cache |-> [c EXCEPT !.records = @ \cup {new}]]

\* Mutant of UpdateRecordStatus: the change is applied to every version of
\* the token
UpdateRecordStatus_allVersions(c, token, version, status, timestamp, md) ==
    LET hit == {r \in VersionsOf(c, token) : r.version = version}
        new(old) == [old EXCEPT !.status = status, !.timestamp = timestamp,
                                !.metadata = [n \in 1..Len(md) |->
                                                convertMDStreamFromCache(md[n])]]
    IN  IF c.unusable THEN [err |-> "ErrUnusable", cache |-> c]
        ELSE IF status \notin PersistedStatuses
        THEN [err |-> "ErrInvalidStatus", cache |-> c]
        ELSE IF hit = {} THEN [err |-> "ErrRecordNotFound", cache |-> c]
        ELSE [err |-> "nil",
              cache |-> [c EXCEPT !.records =
                           (@ \ VersionsOf(c, token))
                           \cup {new(old) : old \in VersionsOf(c, token)}]]

\* Mutant of UpdateRecordStatus: the metadata streams are added to the
\* stored ones
UpdateRecordStatus_append(c, token, version, status, timestamp, md) ==
    LET hit == {r \in VersionsOf(c, token) : r.version = version}
        old == CHOOSE r \in hit : TRUE
        new == [old EXCEPT !.status = status, !.timestamp = timestamp,
                           !.metadata = @ \o [n \in 1..Len(md) |->
                                                convertMDStreamFromCache(md[n])]]
    IN  IF c.unusable THEN [err |-> "ErrUnusable", cache |-> c]
        ELSE IF status \notin PersistedStatuses
        THEN [err |-> "ErrInvalidStatus", cache |-> c]
        ELSE IF hit = {} THEN [err |-> "ErrRecordNotFound", cache |-> c]
        ELSE [err |-> "nil", cache |-> [c EXCEPT !.records = (@ \ {old}) \cup {new}]]

\* Cache.UpdateRecordStatus: status, timestamp and metadata streams of the
\* row of (token, version) are replaced
UpdateRecordStatus(c, token, version, status, timestamp, md) ==
    LET hit == {r \in VersionsOf(c, token) : r.version = version}
        old == CHOOSE r \in hit : TRUE
        new == [old EXCEPT !.status = status, !.timestamp = timestamp,
                           !.metadata = [n \in 1..Len(md) |->
                                           convertMDStreamFromCache(md[n])]]
    IN  IF c.unusable THEN [err |-> "ErrUnusable", cache |-> c]
        ELSE IF status \notin PersistedStatuses
        THEN [err |-> "ErrInvalidStatus", cache |-> c]
        ELSE IF hit = {} THEN [err |-> "ErrRecordNotFound", cache |-> c]
        ELSE [err |-> "nil", cache |-> [c EXCEPT !.records = (@ \ {old}) \cup {new}]]

RECURSIVE BuildFrom(_, _, _)
\* The inserts of Build, in the order of the records; the first failure ends them
BuildFrom(c, records, n) ==
    IF n > Len(records) THEN [err |-> "nil", cache |-> c]
    ELSE LET one == NewRecord(c, records[n])
         IN  IF one.err # "nil" THEN one ELSE BuildFrom(one.cache, records, n + 1)

\* Cache.Build: the tables are dropped and every record is inserted; a
\* failure leaves the cache empty and unusable until a Build succeeds
Build(c, records) ==
    LET done == BuildFrom([c EXCEPT !.records = {}, !.unusable = FALSE], records, 1)
    IN  IF done.err = "nil" THEN done
        ELSE [err |-> done.err,
              cache |-> [c EXCEPT !.records = {}, !.unusable = TRUE]]

\* ------------------------------------------- the callers of the cache
MaxCacheRows == 2
\* The statuses a caller inserts a version with: unreviewed, public, the
\* sentinel and a value outside the enum
InsertStatuses ==
    {RecordStatusNotReviewed, RecordStatusPublic, RecordStatusNotFound,
     RecordStatusArchived + 1}
\* The content a caller writes in a version, and what a status change carries
ContentOf(version) == VersionNum(version)
StatusChange == [timestamp |-> 9, metadata |-> <<[id |-> 2, payload |-> 9]>>]

\* The record lists given to Build
BuildInputs ==
    {<<>>}
    \cup {<<MakeRecord(t, InitialVersion, s, ContentOf(InitialVersion))>> :
            t \in Tokens, s \in InsertStatuses}
    \cup {<<MakeRecord(<<"a">>, InitialVersion, RecordStatusNotReviewed,
                       ContentOf(InitialVersion)),
            MakeRecord(t, v, s, ContentOf(v))>> :
            t \in Tokens, v \in Versions,
            s \in {RecordStatusPublic, RecordStatusNotFound}}

cachevars == <<store, snapIter, codec, keyfile>>

CacheWrite(name, done) ==
    /\ cache' = done.cache
    /\ cacheRes' = [name |-> name, err |-> done.err, arg |-> <<>>, out |-> Nil]
    /\ UNCHANGED cachevars

CacheRead(name, arg, got) ==
    /\ cacheRes' = [name |-> name, err |-> got.err, arg |-> arg, out |-> got.out]
    /\ UNCHANGED <<cache, cachevars>>

CallNewRecord ==
    \E t \in Tokens, s \in InsertStatuses :
        LET r == MakeRecord(t, InitialVersion, s, ContentOf(InitialVersion))
        IN  /\ Cardinality(cache.records) < MaxCacheRows
               \/ NewRecord(cache, r).err # "nil"
            /\ CacheWrite("NewRecord", NewRecord(cache, r))

CallUpdateRecord ==
    \E t \in Tokens, v \in Versions, s \in InsertStatuses :
        LET r == MakeRecord(t, v, s, ContentOf(v))
        IN  /\ Cardinality(cache.records) < MaxCacheRows
               \/ UpdateRecord(cache, r).err # "nil"
            /\ CacheWrite("UpdateRecord", UpdateRecord(cache, r))

\* The caller names the latest version of the token, or one that is not stored
CallUpdateRecordStatus ==
    \E t \in Tokens, v \in Versions, s \in StatusValues :
        /\ \A r \in VersionsOf(cache, t) :
               r.version = v => r = LatestRow(cache, t)
        /\ CacheWrite("UpdateRecordStatus",
                      UpdateRecordStatus(cache, t, v, s, StatusChange.timestamp,
                                         StatusChange.metadata))

CallBuild ==
    \E records \in BuildInputs :
        CacheWrite("Build", Build(cache, records))

CallRecord ==
    \E t \in Tokens : CacheRead("Record", <<t>>, Record(cache, t))

CallRecordVersion ==
    \E t \in Tokens, v \in Versions :
        CacheRead("RecordVersion", <<t, v>>, RecordVersion(cache, t, v))

CallInventory == CacheRead("Inventory", <<>>, Inventory(cache))

CallInventoryStats == CacheRead("InventoryStats", <<>>, InventoryStats(cache))

InitCache ==
    /\ StoreIdle
    /\ ExtInit

NextCache ==
    \/ CallNewRecord
    \/ CallUpdateRecord
    \/ CallUpdateRecordStatus
    \/ CallBuild
    \/ CallRecord
    \/ CallRecordVersion
    \/ CallInventory
    \/ CallInventoryStats

SpecCache == InitCache /\ [][NextCache]_vars


\* ------------------------------------------- versions past the ninth
\* The cache with revisions "9" and "10" of a token next to its first one
RevisionVersions == {<<"9">>, <<"1", "0">>}

RevNewRecord ==
    \E t \in Tokens, s \in InsertStatuses :
        CacheWrite("NewRecord",
                   NewRecord(cache, MakeRecord(t, InitialVersion, s,
                                               ContentOf(InitialVersion))))

RevUpdateRecord ==
    \E t \in Tokens, v \in RevisionVersions, s \in InsertStatuses :
        CacheWrite("UpdateRecord",
                   UpdateRecord(cache, MakeRecord(t, v, s, ContentOf(v))))

NextRevisions ==
    \/ RevNewRecord
    \/ RevUpdateRecord
    \/ CallRecord
    \/ CallInventory

SpecRevisions == InitCache /\ [][NextRevisions]_vars

\* --------------------------------------------------------- the plugins
\* The plugin of an ID, when one is registered
Registered(c, id) == {p \in c.plugins : p.id = id}

\* The commands the code of a plugin recognizes
PluginCommands(id) ==
    IF id = "decred" THEN {"newcomment", "startvote"} ELSE {"ping"}

\* Mutant of RegisterPlugin: a second registration replaces the first
RegisterPlugin_replace(c, p) ==
    [err |-> "nil",
     cache |-> [c EXCEPT !.plugins = (@ \ Registered(c, p.id)) \cup {p}]]

\* Cache.RegisterPlugin
RegisterPlugin(c, p) ==
    IF Registered(c, p.id) # {} THEN [err |-> "ErrDuplicatePlugin", cache |-> c]
    ELSE [err |-> "nil", cache |-> [c EXCEPT !.plugins = @ \cup {p}]]

\* Cache.PluginSetup: the Setup of the plugin's driver
PluginSetup(c, id) ==
    IF Registered(c, id) = {} THEN [err |-> "ErrInvalidPlugin", cache |-> c]
    ELSE [err |-> "nil", cache |-> [c EXCEPT !.plugindata[id].setup = TRUE]]

\* Cache.PluginBuild: the Build of the plugin's driver
PluginBuild(c, id, data) ==
    IF Registered(c, id) = {} THEN [err |-> "ErrInvalidPlugin", cache |-> c]
    ELSE [err |-> "nil", cache |-> [c EXCEPT !.plugindata[id].built = data]]

\* Mutant of PluginExec: the command is handed to the plugin unchecked
PluginExec_anyCmd(c, cmd) ==
    IF Registered(c, cmd.id) = {}
    THEN [err |-> "ErrInvalidPlugin", cache |-> c, out |-> Nil]
    ELSE [err |-> "nil",
          cache |-> [c EXCEPT !.plugindata[cmd.id].execs = @ + 1],
          out |-> [id |-> cmd.id, command |-> cmd.command,
                   payload |-> cmd.commandpayload]]

\* Cache.PluginExec: the Exec of the plugin's driver and its reply
PluginExec(c, cmd) ==
    IF Registered(c, cmd.id) = {}
    THEN [err |-> "ErrInvalidPlugin", cache |-> c, out |-> Nil]
    ELSE IF cmd.command \notin PluginCommands(cmd.id)
    THEN [err |-> "ErrInvalidPluginCmd", cache |-> c, out |-> Nil]
    ELSE [err |-> "nil",
          cache |-> [c EXCEPT !.plugindata[cmd.id].execs = @ + 1],
          out |-> [id |-> cmd.id, command |-> cmd.command,
                   payload |-> cmd.commandpayload]]

MaxPluginExecs == 2

\* The plugins a caller registers and the commands it sends
PluginInputs ==
    [id : PluginIDs, version : {"1", "2"},
     settings : {<<>>, <<[key |-> "dcrdata", value |-> "localhost"]>>}]
CommandInputs ==
    [id : PluginIDs, command : {"newcomment", "ping", "bogus"},
     commandpayload : {1}, replypayload : {1}]

PluginCall(name, done, out) ==
    /\ cache' = done.cache
    /\ cacheRes' = [name |-> name, err |-> done.err, arg |-> <<>>, out |-> out]
    /\ UNCHANGED cachevars

CallRegisterPlugin ==
    \E p \in PluginInputs :
        PluginCall("RegisterPlugin", RegisterPlugin(cache, p), Nil)

CallPluginSetup ==
    \E id \in PluginIDs : PluginCall("PluginSetup", PluginSetup(cache, id), Nil)

CallPluginBuild ==
    \E id \in PluginIDs, data \in UserPayloads :
        PluginCall("PluginBuild", PluginBuild(cache, id, data), Nil)

CallPluginExec ==
    \E cmd \in CommandInputs :
        /\ cache.plugindata[cmd.id].execs < MaxPluginExecs
        /\ PluginCall("PluginExec", PluginExec(cache, cmd), PluginExec(cache, cmd).out)

NextPlugins ==
    \/ CallRegisterPlugin
    \/ CallPluginSetup
    \/ CallPluginBuild
    \/ CallPluginExec

SpecPlugins == InitCache /\ [][NextPlugins]_vars

\* ---------------------------------------------- Build and its failures
\* Mutant of BuildInterrupted: the rows inserted before the failure stay
BuildInterrupted_partial(c, records, n) ==
    [err |-> "ErrStorage",
     cache |-> BuildFrom([c EXCEPT !.records = {}, !.unusable = FALSE],
                         SubSeq(records, 1, n - 1), 1).cache]

\* Cache.Build when the storage fails at the n-th insert: the cache is left
\* empty and unusable, as for a record that cannot be inserted
BuildInterrupted(c, records, n) ==
    [err |-> "ErrStorage", cache |-> [c EXCEPT !.records = {}, !.unusable = TRUE]]

CallBuildInterrupted ==
    \E records \in BuildInputs, n \in 1..MaxCacheRows :
        /\ n <= Len(records)
        /\ CacheWrite("Build", BuildInterrupted(cache, records, n))

NextBuild ==
    \/ CallBuild
    \/ CallBuildInterrupted
    \/ CallNewRecord
    \/ CallUpdateRecord
    \/ CallRecord
    \/ CallInventory

SpecBuild == InitCache /\ [][NextBuild]_vars

\* ------------------------------------------------- the status values
\* The writes of records and statuses, without reads
NextStatus ==
    \/ CallNewRecord
    \/ CallUpdateRecord
    \/ CallUpdateRecordStatus

SpecStatus == InitCache /\ [][NextStatus]_vars

\* ------------------------------------- UpdateRecord and concurrent reads
\* What the transaction of an UpdateRecord has written so far: the record
\* row, then its metadata streams, then its files
Staged(p) ==
    LET row == convertRecordFromCache(p.rec)
    IN  CASE p.step = 1 -> [row EXCEPT !.metadata = <<>>, !.files = <<>>]
          [] p.step = 2 -> [row EXCEPT !.files = <<>>]
          [] OTHER -> row

\* Mutant of ReadView: the writes of the open transaction are visible
ReadView_dirty(c) ==
    IF c.pending.step = 0 THEN c
    ELSE [c EXCEPT !.records = @ \cup {Staged(c.pending)}, !.pending = NoPending]

\* What a reader's query sees: the committed rows, nothing of the
\* transaction that is open
ReadView(c) == [c EXCEPT !.pending = NoPending]

\* A first version is stored
TxNewRecord ==
    \E t \in Tokens, s \in InsertStatuses \cap PersistedStatuses :
        LET done == NewRecord(cache, MakeRecord(t, InitialVersion, s,
                                                ContentOf(InitialVersion)))
        IN  /\ done.err = "nil"
            /\ Cardinality(cache.records) < MaxCacheRows
            /\ cache' = done.cache
            /\ UNCHANGED <<cacheRes, cachevars>>

\* UpdateRecord opens its transaction and writes the record row
UpdBegin ==
    \E t \in Tokens, v \in Versions, s \in InsertStatuses :
        LET r == MakeRecord(t, v, s, ContentOf(v))
        IN  /\ cache.pending.step = 0
            /\ Cardinality(cache.records) < MaxCacheRows
            /\ UpdateRecord(cache, r).err = "nil"
            /\ cache' = [cache EXCEPT !.pending = [step |-> 1, rec |-> r]]
            /\ UNCHANGED <<cacheRes, cachevars>>

\* ... then the metadata streams, then the files
UpdStep ==
    /\ cache.pending.step \in {1, 2}
    /\ cache' = [cache EXCEPT !.pending.step = @ + 1]
    /\ UNCHANGED <<cacheRes, cachevars>>

\* ... and commits
UpdCommit ==
    /\ cache.pending.step = 3
    /\ cache' = UpdateRecord(ReadView(cache), cache.pending.rec).cache
    /\ UNCHANGED <<cacheRes, cachevars>>

\* Record(token): the query for the latest row of the token ...
ReadLatest ==
    \E t \in Tokens :
        LET got == Record(ReadView(cache), t)
        IN  /\ cacheRes.err # "reading"
            /\ cacheRes' =
                   IF got.err # "nil"
                   THEN [name |-> "Record", err |-> got.err, arg |-> <<t>>, out |-> Nil]
                   ELSE [name |-> "Record", err |-> "reading", arg |-> <<t>>,
                         out |-> LatestRow(ReadView(cache), t).key]
            /\ UNCHANGED <<cache, cachevars>>

\* ... and the queries for the metadata streams and files of that row
ReadPreload ==
    /\ cacheRes.err = "reading"
    /\ \E row \in ReadView(cache).records :
           /\ row.key = cacheRes.out
           /\ cacheRes' = [cacheRes EXCEPT !.err = "nil",
                                           !.out = convertRecordToCache(row)]
    /\ UNCHANGED <<cache, cachevars>>

ReadInventory ==
    /\ cacheRes.err # "reading"
    /\ CacheRead("Inventory", <<>>, Inventory(ReadView(cache)))

NextAtomic ==
    \/ TxNewRecord
    \/ UpdBegin
    \/ UpdStep
    \/ UpdCommit
    \/ ReadLatest
    \/ ReadPreload
    \/ ReadInventory

SpecAtomic == InitCache /\ [][NextAtomic]_vars

\* ------------------------------------------------------ the storage key
\* Tokens and versions of different lengths
KeyTokens == {<<"a">>, <<"a", "1">>}
KeyVersions == {<<"1">>, <<"1", "1">>}

\* NewRecord of any token in any version; the result names the pair
KeyNewRecord ==
    \E t \in KeyTokens, v \in KeyVersions, s \in InsertStatuses :
        LET done == NewRecord(cache, MakeRecord(t, v, s, ContentOf(v)))
        IN  /\ cache' = done.cache
            /\ cacheRes' = [name |-> "NewRecord", err |-> done.err,
                            arg |-> <<t, v>>, out |-> Nil]
            /\ UNCHANGED cachevars

KeyRecordVersion ==
    \E t \in KeyTokens, v \in KeyVersions :
        CacheRead("RecordVersion", <<t, v>>, RecordVersion(cache, t, v))

NextKeys ==
    \/ KeyNewRecord
    \/ KeyRecordVersion

SpecKeys == InitCache /\ [][NextKeys]_vars

\* ------------------------------------------- Open over the same data
\* Instances are made, opened and closed one after the other over the data
\* of one store; the caller Puts and Gets user records in between
InitOpen == Init /\ backend # "cockroachdb0"

NextOpen ==
    \/ \E ek \in EncKeys : New(ek)
    \/ Open
    \/ Close(1)
    \/ \E k \in UserKeys, v \in UserPayloads : CallPut(1, k, v)
    \/ \E k \in UserKeys : CallGet(1, k)
    \/ LdbStep(1)
    \/ CdbRead(1)
    \/ TxBegin(1)
    \/ TxWrite(1)
    \/ TxCommit(1)
    \/ Return(1)

SpecOpen == InitOpen /\ [][NextOpen]_vars

\* ------------------------------------------- encoding and decoding back
\* The Version structs a caller may hand to EncodeVersion: any envelope,
\* any database version, any creation time
VersionInputs ==
    [recordtype : RecordTypes, recordversion : RecordVersions,
     version : {DatabaseVersion, OtherVersion}, time : 0..1]

\* The User structs a caller may hand to EncodeUser
UserInputs ==
    [recordtype : RecordTypes, recordversion : RecordVersions,
     id : 1..NumPayloads]

\* b, err := EncodeX(arg): json.Marshal of these structs does not fail
Encoded(arg, payload, by) ==
    /\ codec' = [payload |-> payload, by |-> by, decoder |-> "none",
                 err |-> "nil", arg |-> arg, out |-> Nil]
    /\ UNCHANGED <<store, snapIter, keyfile, cache, cacheRes>>

RoundEncodeVersion == \E v \in VersionInputs : Encoded(v, EncodeVersion(v), "version")

RoundEncodeUser == \E u \in UserInputs : Encoded(u, EncodeUser(u), "user")

\* out, err := DecodeX(b) of the bytes the matching encoder returned
RoundDecodeVersion ==
    /\ codec.by = "version" /\ codec.decoder = "none"
    /\ codec' = [codec EXCEPT !.decoder = "version",
                              !.err = DecodeVersion(codec.payload).err,
                              !.out = DecodeVersion(codec.payload)]
    /\ UNCHANGED <<store, snapIter, keyfile, cache, cacheRes>>

RoundDecodeUser ==
    /\ codec.by = "user" /\ codec.decoder = "none"
    /\ codec' = [codec EXCEPT !.decoder = "user",
                              !.err = DecodeUser(codec.payload).err,
                              !.out = DecodeUser(codec.payload)]
    /\ UNCHANGED <<store, snapIter, keyfile, cache, cacheRes>>

NextRound ==
    \/ RoundEncodeVersion
    \/ RoundEncodeUser
    \/ RoundDecodeVersion
    \/ RoundDecodeUser

SpecRound == InitCodec /\ [][NextRound]_vars

\* ------------------------------------ Get while another caller overwrites
\* Caller 1 Puts, the other callers Get; every call returns and the callers
\* go on, on one instance that stays open
NextOverwrite ==
    \/ \E k \in UserKeys, v \in UserPayloads : CallPut(1, k, v)
    \/ \E p \in Procs \ {1}, k \in UserKeys : CallGet(p, k)
    \/ \E p \in Procs : LdbStep(p)
    \/ \E p \in Procs : CdbRead(p)
    \/ TxBegin(1)
    \/ TxWrite(1)
    \/ TxCommit(1)
    \/ \E p \in Procs : Return(p)

SpecOverwrite == InitConc /\ [][NextOverwrite]_vars

\* ------------------------------------------- Put when sealing fails
\* A transaction Put began and left without Commit or Rollback
OpenTx == [stale |-> FALSE, open |-> TRUE]

\* cockroachdb Put when sbox.Encrypt returns an error (its nonce could not
\* be read): tx := c.usersdb.Begin() has run, Put returns the error
TxSealFail(p) ==
    /\ pc[p] = "run"
    /\ op[p].name = "Put"
    /\ backend = "cockroachdb"
    /\ inst.handle = "open"
    /\ Finish(p, [NoRes EXCEPT !.err = "ErrEncrypt", !.touched = TRUE])
    /\ tx' = [tx EXCEPT ![p] = OpenTx]
    /\ UNCHANGED <<backend, rows, inst, ninst, op, lastPut, ext>>

\* leveldb Put when database.Encrypt returns an error: nothing was begun
LdbSealFail(p) ==
    /\ pc[p] = "run"
    /\ op[p].name = "Put"
    /\ backend \in LevelDBs
    /\ Finish(p, [NoRes EXCEPT !.err = "ErrEncrypt", !.touched = TRUE])
    /\ UNCHANGED <<backend, rows, inst, ninst, op, tx, lastPut, ext>>

\* The transaction of caller p is begun and neither committed nor rolled back
TxOpen(p) ==
    \/ pc[p] \in {"txFound", "txAbsent", "txCreated", "txUpdated"}
    \/ tx[p] = OpenTx

NextSeal ==
    \/ \E p \in Procs, k \in UserKeys, v \in UserPayloads : CallPut(p, k, v)
    \/ \E p \in Procs : LdbStep(p)
    \/ \E p \in Procs : LdbSealFail(p)
    \/ \E p \in Procs : TxSealFail(p)
    \/ \E p \in Procs : TxBegin(p)
    \/ \E p \in Procs : TxWrite(p)
    \/ \E p \in Procs : TxCommit(p)

SpecSeal == InitConc /\ [][NextSeal]_vars

\* --------------------------------------- Open on a closed instance
\* Open called again on an instance that Close has shut down: OpenFile /
\* gorm.Open give it a new handle, then Open reads the version record with
\* its own Get and goes on as on any instance
ReOpen ==
    /\ backend \in {"leveldb", "cockroachdb"}
    /\ AllIdle
    /\ inst.phase = "Bootstrapped"
    /\ inst.shutdown
    /\ LET i1 == [inst EXCEPT !.handle = "open"]
           r == OpenResult(backend, rows, i1, ninst) IN
        /\ rows' = r.rows
        /\ inst' = [i1 EXCEPT !.openErr = r.err]
        /\ lastPut' = IF r.rows # rows
                      THEN NotePut(lastPut, rows, DatabaseVersionKey,
                             OpenPayload(backend, inst.ek, ninst), ninst)
                      ELSE lastPut
    /\ UNCHANGED <<backend, ninst, pc, op, res, tx, ext>>

InitReopen == Init /\ backend \in {"leveldb", "cockroachdb"}

NextReopen ==
    \/ \E ek \in EncKeys : New(ek)
    \/ Open
    \/ Close(1)
    \/ ReOpen
    \/ \E k \in UserKeys, v \in UserPayloads : CallPut(1, k, v)
    \/ \E k \in Keys : CallGet(1, k)
    \/ LdbStep(1)
    \/ CdbRead(1)
    \/ TxBegin(1)
    \/ TxWrite(1)
    \/ TxCommit(1)
    \/ Return(1)

SpecReopen == InitReopen /\ [][NextReopen]_vars

\* ------------------------------- GetSnapshot when the iteration fails
\* The iterator of GetSnapshot stops on an error of its own (a block it
\* cannot read) before the last entry: iter.Next() returns false, the loop
\* ends, and GetSnapshot returns &snapshot, nil without reading iter.Error()
SnapIterFail(p) ==
    /\ pc[p] = "snapIter"
    /\ KeysAhead(SnapSource(snapIter[p].held, rows), snapIter[p].cursor) # {}
    /\ Finish(p, [NoRes EXCEPT !.snap = SnapshotMap(snapIter[p].acc),
                               !.touched = TRUE])
    /\ UNCHANGED <<backend, rows, inst, ninst, op, tx, lastPut, ext>>

NextIter ==
    \/ CallGetSnapshot(1)
    \/ SnapTake(1)
    \/ SnapNext(1)
    \/ SnapIterFail(1)
    \/ \E p \in SnapWriters, k \in Keys, v \in UserPayloads : CallPut(p, k, v)
    \/ \E p \in SnapWriters : LdbPut(p)
    \/ \E p \in SnapWriters : Return(p)

SpecIter == InitSnap /\ [][NextIter]_vars

\* --------------------------------- iterating a store opened fresh
\* A store created empty, opened by leveldb.go or cockroachdb.go
InitFresh == Init /\ rows = {} /\ backend \in {"leveldb", "cockroachdb"}

NextFresh ==
    \/ \E ek \in EncKeys : New(ek)
    \/ Open
    \/ \E k \in UserKeys, v \in UserPayloads : CallPut(1, k, v)
    \/ CallGetAll(1)
    \/ CallGetSnapshot(1)
    \/ LdbStep(1)
    \/ CdbRead(1)
    \/ TxBegin(1)
    \/ TxWrite(1)
    \/ TxCommit(1)
    \/ Return(1)

SpecFresh == InitFresh /\ [][NextFresh]_vars

\* --------------------------------------- a status change made twice
\* UpdateRecordStatus on the latest version of a token; the caller keeps
\* the arguments
StatusFirst ==
    \E t \in Tokens, v \in Versions, s \in StatusValues :
        LET done == UpdateRecordStatus(cache, t, v, s, StatusChange.timestamp,
                                       StatusChange.metadata)
        IN  /\ \A r \in VersionsOf(cache, t) :
                   r.version = v => r = LatestRow(cache, t)
            /\ cache' = done.cache
            /\ cacheRes' = [name |-> "UpdateRecordStatus", err |-> done.err,
                            arg |-> <<t, v, s>>, out |-> Nil]
            /\ UNCHANGED cachevars

\* The same call again, right after it succeeded
StatusAgain ==
    /\ cacheRes.name \in {"UpdateRecordStatus", "UpdateRecordStatusAgain"}
    /\ cacheRes.err = "nil"
    /\ LET done == UpdateRecordStatus(cache, cacheRes.arg[1], cacheRes.arg[2],
                                      cacheRes.arg[3], StatusChange.timestamp,
                                      StatusChange.metadata)
       IN  /\ cache' = done.cache
           /\ cacheRes' = [cacheRes EXCEPT !.name = "UpdateRecordStatusAgain",
                                           !.err = done.err]
    /\ UNCHANGED cachevars

NextTwice ==
    \/ CallNewRecord
    \/ CallUpdateRecord
    \/ StatusFirst
    \/ StatusAgain

SpecTwice == InitCache /\ [][NextTwice]_vars

\* ----------------------------------------------- part_003 Set and Get
\* The users table as part_003 finds it: empty, or with rows of user IDs
\* written before
InitSet ==
    /\ backend = "cockroachdb0"
    /\ inst = GivenInstance
    /\ ninst = 1
    /\ \E f \in StoredEntries(backend, inst) :
        /\ rows = EntryRows(backend, inst, f)
        /\ lastPut = [k \in Keys |->
                        IF k \in UserKeys /\ f[k] # Nil
                        THEN [val |-> f[k], by |-> 1, over |-> FALSE]
                        ELSE NoPut]
    /\ pc = [p \in Procs |-> "idle"]
    /\ op = [p \in Procs |-> NoOp]
    /\ res = [p \in Procs |-> NoRes]
    /\ tx = [p \in Procs |-> NoTx]
    /\ ExtInit

NextSet ==
    \/ \E p \in Procs, k \in UserKeys, v \in UserPayloads : CallPut(p, k, v)
    \/ \E p \in Procs, k \in UserKeys : CallGet(p, k)
    \/ \E p \in Procs : CdbRead(p)
    \/ \E p \in Procs : TxBegin(p)
    \/ \E p \in Procs : TxWrite(p)
    \/ \E p \in Procs : TxCommit(p)
    \/ \E p \in Procs : Return(p)

SpecSet == InitSet /\ [][NextSet]_vars

\* ------------------------------------- a record converted and back
\* The metadata streams and files of the records handed to the conversion:
\* none, one, and two in either order
MetadataLists ==
    {<<>>, <<[id |-> 1, payload |-> 1]>>,
     <<[id |-> 1, payload |-> 1], [id |-> 2, payload |-> 0]>>,
     <<[id |-> 2, payload |-> 0], [id |-> 1, payload |-> 1]>>}

FileLists ==
    {<<>>, <<[name |-> "index.md", mime |-> "text/plain", digest |-> 1, payload |-> 1]>>,
     <<[name |-> "b.png", mime |-> "image/png", digest |-> 2, payload |-> 0],
       [name |-> "index.md", mime |-> "text/plain", digest |-> 1, payload |-> 1]>>}

\* Every cache.Record over these: any status value, stored or not
ConvertInputs ==
    [version : Versions, status : StatusValues, timestamp : 0..1,
     censorshiprecord : [token : Tokens, merkle : {1}, signature : {2}],
     metadata : MetadataLists, files : FileLists]

\* row := convertRecordFromCache(r)
ConvertFrom ==
    /\ cacheRes = NoCacheRes
    /\ \E r \in ConvertInputs :
          cacheRes' = [name |-> "convertRecordFromCache", err |-> "nil",
                       arg |-> r, out |-> convertRecordFromCache(r)]
    /\ UNCHANGED <<cache, cachevars>>

\* back := convertRecordToCache(row)
ConvertBack ==
    /\ cacheRes.name = "convertRecordFromCache"
    /\ cacheRes' = [cacheRes EXCEPT !.name = "convertRecordToCache",
                                    !.out = convertRecordToCache(cacheRes.out)]
    /\ UNCHANGED <<cache, cachevars>>

NextConvert == ConvertFrom \/ ConvertBack

SpecConvert == InitCache /\ [][NextConvert]_vars

\* --------------------------------------- the start-vote conversion
\* Strings are sequences of characters
RECURSIVE Join(_, _)
\* strings.Join(elems, sep)
Join(elems, sep) ==
    IF Len(elems) = 0 THEN <<>>
    ELSE IF Len(elems) = 1 THEN elems[1]
    ELSE elems[1] \o <<sep>> \o Join(Tail(elems), sep)

RECURSIVE Split(_, _)
\* strings.Split(s, sep) for a separator of one character: the substrings
\* between the separators, one more than there are separators
Split(s, sep) ==
    IF \A i \in 1..Len(s) : s[i] # sep THEN <<s>>
    ELSE LET i == CHOOSE j \in 1..Len(s) :
                      s[j] = sep /\ \A k \in 1..(j - 1) : s[k] # sep
         IN  <<SubSeq(s, 1, i - 1)>> \o Split(SubSeq(s, i + 1, Len(s)), sep)

\* convertStartVoteFromDecred: the database StartVote of a decredplugin
\* StartVote and its reply; the tickets are joined with commas
convertStartVoteFromDecred(sv, svr) ==
    [token |-> sv.vote.token,
     mask |-> sv.vote.mask,
     duration |-> sv.vote.duration,
     quorumpercentage |-> sv.vote.quorumpercentage,
     passpercentage |-> sv.vote.passpercentage,
     options |-> [n \in 1..Len(sv.vote.options) |->
                    [token |-> sv.vote.token, id |-> sv.vote.options[n].id,
                     description |-> sv.vote.options[n].description,
                     bits |-> sv.vote.options[n].bits]],
     publickey |-> sv.publickey,
     signature |-> sv.signature,
     startblockheight |-> svr.startblockheight,
     startblockhash |-> svr.startblockhash,
     endheight |-> svr.endheight,
     eligibletickets |-> Join(svr.eligibletickets, ",")]

\* convertStartVoteToDecred: (StartVote, StartVoteReply) of a database
\* StartVote; the tickets are split at the commas
convertStartVoteToDecred(sv) ==
    [sv |-> [publickey |-> sv.publickey,
             signature |-> sv.signature,
             vote |-> [token |-> sv.token, mask |-> sv.mask,
                       duration |-> sv.duration,
                       quorumpercentage |-> sv.quorumpercentage,
                       passpercentage |-> sv.passpercentage,
                       options |-> [n \in 1..Len(sv.options) |->
                                      [id |-> sv.options[n].id,
                                       description |-> sv.options[n].description,
                                       bits |-> sv.options[n].bits]]]],
     svr |-> [startblockheight |-> sv.startblockheight,
              startblockhash |-> sv.startblockhash,
              endheight |-> sv.endheight,
              eligibletickets |-> Split(sv.eligibletickets, ",")]]

\* Ticket hashes, and the ticket lists of a reply: none, one, two
Tickets == {<<"a">>, <<"b", "c">>}
TicketLists ==
    {<<>>} \cup {<<t>> : t \in Tickets} \cup {<<t, u>> : t, u \in Tickets}

\* The options of a vote: none, one, two
OptionLists ==
    {<<>>, <<[id |-> "yes", description |-> "approve", bits |-> 2]>>,
     <<[id |-> "no", description |-> "reject", bits |-> 1],
       [id |-> "yes", description |-> "approve", bits |-> 2]>>}

StartVoteInputs ==
    [publickey : {1}, signature : {2},
     vote : [token : Tokens, mask : {3}, duration : {2016},
             quorumpercentage : {20, 50}, passpercentage : {60},
             options : OptionLists]]

StartVoteReplyInputs ==
    [startblockheight : {10}, startblockhash : {<<"h">>}, endheight : {2026},
     eligibletickets : TicketLists]

\* row := convertStartVoteFromDecred(sv, svr)
StartVoteFrom ==
    /\ cacheRes = NoCacheRes
    /\ \E sv \in StartVoteInputs, svr \in StartVoteReplyInputs :
          cacheRes' = [name |-> "convertStartVoteFromDecred", err |-> "nil",
                       arg |-> [sv |-> sv, svr |-> svr],
                       out |-> convertStartVoteFromDecred(sv, svr)]
    /\ UNCHANGED <<cache, cachevars>>

\* sv, svr := convertStartVoteToDecred(row)
StartVoteBack ==
    /\ cacheRes.name = "convertStartVoteFromDecred"
    /\ cacheRes' = [cacheRes EXCEPT !.name = "convertStartVoteToDecred",
                                    !.out = convertStartVoteToDecred(cacheRes.out)]
    /\ UNCHANGED <<cache, cachevars>>

NextVote == StartVoteFrom \/ StartVoteBack

SpecVote == InitCache /\ [][NextVote]_vars

\* ================================================================ claims
\* The plaintext a stored payload holds, opened with the key that sealed it
PlainOf(b, packed) ==
    IF b = "cockroachdb0" THEN B64Decode(packed).data
    ELSE IF packed.kind = "sbox" THEN Decrypt(packed.ek, packed).data
    ELSE Nil

Done(p, name) == pc[p] = "done" /\ op[p].name = name

\* C1: on an opened and not yet closed instance, a Get(k) that follows a
\* successful Put(k, p) of the same instance, with no other Put to k in
\* between, returns nil and exactly p.
C1_PutGetRoundTrip ==
    \A p \in Procs :
        (/\ Done(p, "Get")
         /\ res[p].err # "ErrShutdown"
         /\ lastPut[op[p].key].by = ninst)
        => (res[p].err = "nil" /\ res[p].val = lastPut[op[p].key].val)

C1_Witness ==
    \E p \in Procs :
        /\ Done(p, "Get")
        /\ op[p].key \in UserKeys
        /\ lastPut[op[p].key].by = ninst
        /\ res[p].err = "nil"
        /\ res[p].val \in UserPayloads

\* C2: a call of Put, Get, Has, GetAll or GetSnapshot that starts after
\* Close has returned on the instance returns ErrShutdown and makes no
\* backend access (Put, Close, Get yields ErrShutdown, not a backend error).
C2_AfterCloseErrShutdown ==
    \A p \in Procs :
        (pc[p] # "idle" /\ op[p].late)
        => (pc[p] = "done" /\ res[p].err = "ErrShutdown" /\ ~res[p].touched)

C2_Witness ==
    \E p \in Procs :
        /\ Done(p, "Get")
        /\ op[p].late
        /\ lastPut[op[p].key].by = ninst
        /\ op[p].key \in UserKeys
        /\ res[p].err = "ErrShutdown"


\* C3: a call concurrent with Close ends with its normal result or with
\* ErrShutdown, never with the error of a released handle (every backend
\* access of a call that read shutdown = false happens before the release).
C3_NoReleasedHandleError ==
    \A p \in Procs : pc[p] = "done" => res[p].err # "ErrClosed"

\* The step in which Open runs on a fresh instance
OpenStep == inst.phase = "Unopened" /\ inst'.phase # "Unopened"

\* The version-marker row that Open of an instance with key ek writes
MarkerRow(b, ek, now) ==
    Row(DatabaseVersionKey, Seal(b, [ek |-> ek], OpenPayload(b, ek, now)))

\* The version record inside a marker payload (part_004 seals it twice)
InnerRecord(packed) ==
    IF packed.data.kind = "sbox" THEN packed.data.data ELSE packed.data

\* C4: Open on a store without a version marker succeeds and adds exactly
\* one marker, carrying the current schema version; Open of a fresh
\* instance with the same key on a store that holds such a marker succeeds
\* and writes nothing.
C4_OpenBootstrap ==
    [][OpenStep =>
        /\ ~HasKey(rows, DatabaseVersionKey) =>
            /\ inst'.openErr = "nil"
            /\ inst'.phase = "Bootstrapped"
            /\ rows' = rows \cup {MarkerRow(backend, inst.ek, ninst)}
            /\ Cardinality(RowsOf(rows', DatabaseVersionKey)) = 1
            /\ LET m == TheRow(rows', DatabaseVersionKey).payload IN
                /\ m.ver = DatabaseVersion
                /\ InnerRecord(m).version = DatabaseVersion
        /\ (\E n \in 1..ninst :
                RowsOf(rows, DatabaseVersionKey) = {MarkerRow(backend, inst.ek, n)}) =>
            /\ inst'.openErr = "nil"
            /\ inst'.phase = "Bootstrapped"
            /\ rows' = rows]_vars

C4_Witness ==
    /\ ninst = 2
    /\ inst.phase = "Bootstrapped"
    /\ lastPut[DatabaseVersionKey].by = 1
    /\ RowsOf(rows, DatabaseVersionKey) = {MarkerRow(backend, inst.ek, 1)}

Opened == inst.phase \in {"Bootstrapped", "Failed"}

\* C5: Open on a store whose version marker was sealed with another
\* encryption key fails with ErrWrongEncryptionKey and leaves the instance
\* not bootstrapped.
C5_WrongKeyFails ==
    (/\ Opened
     /\ backend # "cockroachdb0"
     /\ HasKey(rows, DatabaseVersionKey)
     /\ TheRow(rows, DatabaseVersionKey).payload.ek \in EncKeys \ {inst.ek})
    => (inst.openErr = "ErrWrongEncryptionKey" /\ inst.phase = "Failed")

\* C6: Open on a store whose version marker opens with the instance's key
\* and carries another schema version fails with ErrWrongVersion, and the
\* marker stays as it was.
C6_WrongVersionFails ==
    (/\ Opened
     /\ backend # "cockroachdb0"
     /\ RowsOf(rows, DatabaseVersionKey)
          = {MarkerOfVersion(backend, OtherVersion, inst.ek)})
    => (inst.openErr = "ErrWrongVersion" /\ inst.phase = "Failed")


\* C7: Get(k) on an open store returns ErrNotFound exactly when nothing is
\* stored under k, and never the backend's own not-found error.
C7_GetNotFound ==
    \A p \in Procs :
        (Done(p, "Get") /\ res[p].touched)
        => (/\ res[p].err # "ErrRecordNotFound"
            /\ res[p].err = "ErrNotFound" <=> ~HasKey(rows, op[p].key))

\* The stored payload opens with the instance's key
Openable(packed) == Decrypt(inst.ek, packed).err = "nil"

\* C8: a stored value that does not open with the instance's key is never
\* handed to the caller: Get returns the decrypt error and a nil payload,
\* GetAll calls back only for entries that opened, with their plaintext, and
\* returns the error, GetSnapshot returns the error and no snapshot.
C8_FailClosed ==
    backend # "cockroachdb0" =>
    \A p \in Procs :
        (pc[p] = "done" /\ res[p].touched) =>
        /\ (/\ op[p].name = "Get"
            /\ HasKey(rows, op[p].key)
            /\ ~Openable(TheRow(rows, op[p].key).payload))
           => (res[p].err = "ErrDecrypt" /\ res[p].val = Nil)
        /\ op[p].name = "GetAll" =>
            /\ \A n \in 1..Len(res[p].cbs) :
                \E r \in rows :
                    /\ r.key = res[p].cbs[n].key
                    /\ Openable(r.payload)
                    /\ res[p].cbs[n].val = Decrypt(inst.ek, r.payload).data
            /\ (\E r \in rows : ~Openable(r.payload)) => res[p].err = "ErrDecrypt"
        /\ (op[p].name = "GetSnapshot" /\ \E r \in rows : ~Openable(r.payload))
           => (res[p].err = "ErrDecrypt" /\ res[p].snap = {})

C8_Witness ==
    \E p \in Procs :
        /\ Done(p, "GetAll")
        /\ res[p].err = "ErrDecrypt"
        /\ Len(res[p].cbs) = 1
        /\ \E r \in rows : ~Openable(r.payload)

\* C9: after any sequence of Puts the store holds at most one entry per
\* key, and the entry of a key holds the payload of the last successful Put
\* to it (Put(k, a) then Put(k, b) leaves one entry, holding b).
C9_PutReplaces ==
    \A k \in Keys :
        /\ Cardinality(RowsOf(rows, k)) <= 1
        /\ lastPut[k].by > 0 =>
            /\ HasKey(rows, k)
            /\ PlainOf(backend, TheRow(rows, k).payload) = lastPut[k].val

C9_Witness ==
    \E k \in UserKeys :
        /\ lastPut[k].by > 0
        /\ lastPut[k].over
        /\ Cardinality(RowsOf(rows, k)) = 1
        /\ PlainOf(backend, TheRow(rows, k).payload) = lastPut[k].val

\* The payloads of the Puts to k that reported success
Succeeded(k) ==
    {op[p].val : p \in {q \in Procs : /\ Done(q, "Put")
                                      /\ op[q].key = k
                                      /\ res[q].err = "nil"}}

\* C10: concurrent Puts to one key on cockroachdb never leave two entries
\* for it, and the value stored is the payload of a Put that reported
\* success (the last one that did); a Put that did not commit reports an error.
C10_ConcurrentPut ==
    backend = "cockroachdb" =>
    \A k \in UserKeys :
        /\ Cardinality(RowsOf(rows, k)) <= 1
        /\ Succeeded(k) # {} =>
            /\ HasKey(rows, k)
            /\ PlainOf(backend, TheRow(rows, k).payload) \in Succeeded(k)
        /\ lastPut[k].by > 0 =>
            /\ HasKey(rows, k)
            /\ PlainOf(backend, TheRow(rows, k).payload) = lastPut[k].val

C10_Witness ==
    /\ backend = "cockroachdb"
    /\ \E p, q \in Procs :
        /\ Done(p, "Put") /\ Done(q, "Put")
        /\ op[p].key = op[q].key
        /\ op[p].val # op[q].val
        /\ res[p].err = "nil"
        /\ res[q].err = "ErrDuplicateKey"

\* The plaintext view of a set of stored rows under the instance's key
ViewOf(rws) ==
    {[key |-> r.key, val |-> Decrypt(inst.ek, r.payload).data] : r \in rws}

\* C11: GetSnapshot on leveldb returns exactly the keys, each once, with the
\* decrypted values the store had at the instant the snapshot was taken,
\* also when Puts run during the call: no key of that instant is missing
\* and no value written after it appears.
C11_SnapshotConsistent ==
    \A p \in Procs :
        (Done(p, "GetSnapshot") /\ res[p].touched /\ res[p].err = "nil")
        => (/\ res[p].snap = ViewOf(snapIter[p].held)
            /\ \A x, y \in res[p].snap : x.key = y.key => x = y
            /\ {x.key : x \in res[p].snap} = {r.key : r \in snapIter[p].held})

C11_Witness ==
    \E p \in Procs :
        /\ Done(p, "GetSnapshot")
        /\ res[p].err = "nil"
        /\ Cardinality(res[p].snap) = Cardinality(Keys)
        /\ ViewOf(rows) # ViewOf(snapIter[p].held)
        /\ \A k \in Keys : HasKey(rows, k) /\ TheRow(rows, k) \notin snapIter[p].held
        /\ res[p].snap = ViewOf(snapIter[p].held)

\* The callback invocations of a GetAll that were made for key k
CallsFor(cbs, k) == {n \in 1..Len(cbs) : cbs[n].key = k}

\* C12: with one caller and every stored entry openable, GetAll returns nil
\* after calling back exactly once for each key in the store, with the
\* plaintext stored under it (the payload of the last Put to it), and for
\* no other key.
C12_GetAllOncePerKey ==
    \A p \in Procs :
        (/\ Done(p, "GetAll")
         /\ res[p].touched
         /\ \A r \in rows : Openable(r.payload))
        => (/\ res[p].err = "nil"
            /\ Len(res[p].cbs) = Cardinality({r.key : r \in rows})
            /\ \A k \in Keys :
                /\ Cardinality(CallsFor(res[p].cbs, k))
                     = IF HasKey(rows, k) THEN 1 ELSE 0
                /\ \A n \in CallsFor(res[p].cbs, k) :
                    /\ res[p].cbs[n].val = PlainOf(backend, TheRow(rows, k).payload)
                    /\ lastPut[k].by > 0 => res[p].cbs[n].val = lastPut[k].val)

C12_Witness ==
    \E p \in Procs :
        /\ Done(p, "GetAll")
        /\ res[p].err = "nil"
        /\ Len(res[p].cbs) = Cardinality(Keys)
        /\ \E n \in 1..Len(res[p].cbs) :
            /\ res[p].cbs[n].key \in UserKeys
            /\ lastPut[res[p].cbs[n].key].over
            /\ res[p].cbs[n].val = lastPut[res[p].cbs[n].key].val

\* C13: on an open store Has(k) returns nil and true exactly when an entry
\* is stored under k, that is exactly when Get(k) does not return
\* ErrNotFound; it does not decrypt, so it is true also for an entry that
\* does not open with the instance's key.
C13_HasIffStored ==
    \A p \in Procs :
        (Done(p, "Has") /\ res[p].touched)
        => (/\ res[p].err = "nil"
            /\ res[p].has <=> HasKey(rows, op[p].key)
            /\ res[p].has <=>
                 GetBody(backend, rows, inst, op[p].key).err # "ErrNotFound")

C13_Witness ==
    \E p \in Procs :
        /\ Done(p, "Has")
        /\ res[p].err = "nil"
        /\ res[p].has
        /\ ~Openable(TheRow(rows, op[p].key).payload)

\* The record type a decoder expects
ExpectedType(decoder) ==
    IF decoder = "version" THEN RecordTypeVersion
    ELSE IF decoder = "user" THEN RecordTypeUser
    ELSE RecordTypeLastPaywallAddrIdx

\* C14: DecodeVersion, DecodeUser and DecodeLastPaywallAddressIndex return
\* ErrWrongRecordVersion for a JSON payload whose recordVersion is not the
\* current schema version (also when its recordType is wrong too),
\* ErrWrongRecordType for one with the right recordVersion and another
\* recordType, never ErrWrongVersion, and an error for every payload that
\* the encoder of another kind produced.
C14_DecodeChecksEnvelope ==
    codec.decoder # "none" =>
        /\ (codec.payload.kind = "json"
              /\ codec.payload.recordversion # DatabaseVersion)
           => codec.err = "ErrWrongRecordVersion"
        /\ (codec.payload.kind = "json"
              /\ codec.payload.recordversion = DatabaseVersion
              /\ codec.payload.recordtype # ExpectedType(codec.decoder))
           => codec.err = "ErrWrongRecordType"
        /\ codec.err # "ErrWrongVersion"
        /\ codec.by \notin {"none", codec.decoder} => codec.err # "nil"
        /\ codec.by = codec.decoder => codec.err = "nil"

C14_Witness ==
    /\ codec.decoder = "user"
    /\ codec.payload.kind = "json"
    /\ codec.payload.recordversion # DatabaseVersion
    /\ codec.payload.recordtype # RecordTypeUser
    /\ codec.err = "ErrWrongRecordVersion"

\* C15: ResolveEncryptionKey writes the key file only when it is absent and
\* never changes an existing one, so whatever sequence of
\* ResolveEncryptionKey, CreateCDB, NewCDB, Open and store calls runs, the
\* file is written once; constructing or opening a backend writes no key,
\* an instance works with the key of the file, and NewCDB fails with
\* ErrLoadingEncryptionKey when the file cannot be loaded.
C15_KeyGeneratedOnce ==
    /\ [](/\ keyfile.writes <= 1
          /\ keyfile.last \in {"ResolveEncryptionKey", "CreateCDB"}
               => (keyfile.writes = 1 /\ keyfile.key \in EncKeys)
          /\ keyfile.last = "NewCDB"
               => (keyfile.err = "ErrLoadingEncryptionKey" <=> keyfile.key = NoKey)
          /\ inst.phase # "none"
               => (keyfile.writes = 1 /\ inst.ek = keyfile.key))
    /\ [][/\ keyfile.key # NoKey => (/\ keyfile'.key = keyfile.key
                                      /\ keyfile'.writes = keyfile.writes)
          /\ (inst' # inst \/ ninst' # ninst \/ rows' # rows
                \/ keyfile'.last = "NewCDB")
               => (/\ keyfile'.key = keyfile.key
                   /\ keyfile'.writes = keyfile.writes)
          /\ (keyfile'.err = "ErrLoadingEncryptionKey")
               => (inst' = inst /\ ninst' = ninst)]_vars

C15_Witness ==
    /\ keyfile.writes = 1
    /\ keyfile.last = "CreateCDB"
    /\ ninst = 2
    /\ inst.phase = "Bootstrapped"
    /\ inst.ek = keyfile.key
    /\ lastPut[DatabaseVersionKey].by = 1

StatsSum(st) ==
    st.Invalid + st.NotReviewed + st.Censored + st.Public
    + st.UnreviewedChanges + st.Archived

\* The tokens whose latest version, as Record returns it, has status s
TokensUnder(c, s) == {t \in StoredTokens(c) : Record(c, t).out.status = s}

\* C16: after any sequence of NewRecord, UpdateRecord, UpdateRecordStatus and
\* Build, InventoryStats().Total is the number of distinct tokens Inventory()
\* returns, the six per-status counts add up to Total, and every token is
\* counted once, under the status of its latest version.
C16_InventoryStatsConsistent ==
    ~cache.unusable =>
        LET st == InventoryStats(cache).out
            inv == Inventory(cache).out
        IN  /\ st.Total = Cardinality({r.censorshiprecord.token : r \in inv})
            /\ StatsSum(st) = st.Total
            /\ st.Invalid = Cardinality(TokensUnder(cache, RecordStatusInvalid))
            /\ st.NotReviewed = Cardinality(TokensUnder(cache, RecordStatusNotReviewed))
            /\ st.Censored = Cardinality(TokensUnder(cache, RecordStatusCensored))
            /\ st.Public = Cardinality(TokensUnder(cache, RecordStatusPublic))
            /\ st.UnreviewedChanges =
                   Cardinality(TokensUnder(cache, RecordStatusUnreviewedChanges))
            /\ st.Archived = Cardinality(TokensUnder(cache, RecordStatusArchived))

\* InventoryStats was read of a cache that holds two versions of one token
\* with different statuses
C16_Witness ==
    /\ cacheRes.name = "InventoryStats"
    /\ cacheRes.err = "nil"
    /\ cacheRes.out.Total = 1
    /\ \E r, q \in cache.records :
           r.token = q.token /\ r.version # q.version /\ r.status # q.status

\* The step is a successful call of the named write
CacheSucceeded(name) == cacheRes'.name = name /\ cacheRes'.err = "nil"

\* C17: a successful UpdateRecord that adds a version newer than the latest
\* one of its token makes Record return the new version, and RecordVersion
\* of the previous latest version returns what it returned before.
C17_UpdateRecordKeepsOldVersion ==
    [][CacheSucceeded("UpdateRecord") =>
          \A new \in cache'.records \ cache.records :
              LET T == new.token
                  v1 == LatestRow(cache, T).version
              IN  VersionNum(new.version) > VersionNum(v1) =>
                      /\ Record(cache', T).err = "nil"
                      /\ Record(cache', T).out.version = new.version
                      /\ RecordVersion(cache', T, v1) = RecordVersion(cache, T, v1)
                      /\ RecordVersion(cache', T, v1).err = "nil"]_vars

\* UpdateRecord has added a second version, with another status, to a token
C17_Witness ==
    /\ cacheRes.name = "UpdateRecord"
    /\ cacheRes.err = "nil"
    /\ \E r, q \in cache.records :
           /\ r.token = q.token
           /\ VersionNum(r.version) < VersionNum(q.version)
           /\ r.status # q.status

\* The count of InventoryStats for status s
CountOf(st, s) ==
    CASE s = RecordStatusInvalid -> st.Invalid
      [] s = RecordStatusNotReviewed -> st.NotReviewed
      [] s = RecordStatusCensored -> st.Censored
      [] s = RecordStatusPublic -> st.Public
      [] s = RecordStatusUnreviewedChanges -> st.UnreviewedChanges
      [] s = RecordStatusArchived -> st.Archived

\* C18: UpdateRecordStatus(T, v, s, ts, md) on the latest version v of T
\* succeeds, Record(T) then has status s and the metadata streams md, T has
\* the same versions and the cache the same number of rows as before, and
\* InventoryStats counts T under s and no longer under its previous status.
C18_UpdateRecordStatusInPlace ==
    \A t \in Tokens, s \in PersistedStatuses :
        (~cache.unusable /\ VersionsOf(cache, t) # {}) =>
            LET v == LatestRow(cache, t).version
                prev == LatestRow(cache, t).status
                done == UpdateRecordStatus(cache, t, v, s, StatusChange.timestamp,
                                           StatusChange.metadata)
                before == InventoryStats(cache).out
                after == InventoryStats(done.cache).out
            IN  /\ done.err = "nil"
                /\ Record(done.cache, t).out.version = v
                /\ Record(done.cache, t).out.status = s
                /\ Record(done.cache, t).out.metadata = StatusChange.metadata
                /\ {r.version : r \in VersionsOf(done.cache, t)}
                       = {r.version : r \in VersionsOf(cache, t)}
                /\ Cardinality(done.cache.records) = Cardinality(cache.records)
                /\ after.Total = before.Total
                /\ CountOf(after, s) = CountOf(before, s) + (IF s = prev THEN 0 ELSE 1)
                /\ s # prev => CountOf(after, prev) = CountOf(before, prev) - 1

\* UpdateRecordStatus has made the only record of the cache public
C18_Witness ==
    /\ cacheRes.name = "UpdateRecordStatus"
    /\ cacheRes.err = "nil"
    /\ \E r \in cache.records :
           /\ r.status = RecordStatusPublic
           /\ r.metadata = StatusChange.metadata
    /\ InventoryStats(cache).out.Public = 1
    /\ InventoryStats(cache).out.NotReviewed = 0

\* C19: NewRecord(r) fails when a record with the Token and Version of r is
\* stored, and then the stored record, the latest version of the token and
\* the inventory are what they were.
C19_NewRecordDuplicateFails ==
    \A t \in Tokens, v \in Versions, n \in {1, 2},
       s \in InsertStatuses \cap PersistedStatuses :
        (~cache.unusable
         /\ \E q \in cache.records : q.token = t /\ q.version = v) =>
            LET done == NewRecord(cache, MakeRecord(t, v, s, n))
            IN  /\ done.err # "nil"
                /\ done.cache.records = cache.records
                /\ RecordVersion(done.cache, t, v) = RecordVersion(cache, t, v)
                /\ Record(done.cache, t) = Record(cache, t)
                /\ Inventory(done.cache) = Inventory(cache)

\* NewRecord was refused for a record that is stored
C19_Witness ==
    /\ cacheRes.name = "NewRecord"
    /\ cacheRes.err = "ErrDuplicate"
    /\ \E q \in cache.records : q.version = InitialVersion

\* A row is stored under the key of (token, version)
StoredPair(c, token, version) == \E r \in c.records : r.key = token \o version

\* C20: Record(token) returns ErrRecordNotFound exactly when no version of
\* the token is stored, and RecordVersion(token, version) exactly when that
\* pair is not stored, whatever other versions of the token are; otherwise
\* they return a record of that token (and version).
C20_NotFoundIffAbsent ==
    ~cache.unusable =>
        /\ \A t \in Tokens :
               /\ Record(cache, t).err = "ErrRecordNotFound"
                      <=> \A v \in Versions : ~StoredPair(cache, t, v)
               /\ Record(cache, t).err \in {"nil", "ErrRecordNotFound"}
               /\ Record(cache, t).err = "nil"
                      => Record(cache, t).out.censorshiprecord.token = t
        /\ \A t \in Tokens, v \in Versions :
               /\ RecordVersion(cache, t, v).err = "ErrRecordNotFound"
                      <=> ~StoredPair(cache, t, v)
               /\ RecordVersion(cache, t, v).err \in {"nil", "ErrRecordNotFound"}
               /\ RecordVersion(cache, t, v).err = "nil"
                      => /\ RecordVersion(cache, t, v).out.censorshiprecord.token = t
                         /\ RecordVersion(cache, t, v).out.version = v

\* RecordVersion did not find a version of a token that has another version
C20_Witness ==
    /\ cacheRes.name = "RecordVersion"
    /\ cacheRes.err = "ErrRecordNotFound"
    /\ VersionsOf(cache, cacheRes.arg[1]) # {}
    /\ ~StoredPair(cache, cacheRes.arg[1], cacheRes.arg[2])

\* The revision number a version string stands for
RevisionOf(v) ==
    CASE v = <<"1">> -> 1
      [] v = <<"9">> -> 9
      [] v = <<"1", "0">> -> 10

C22_RegisterPluginOnce ==
    /\ [](/\ \A p \in PluginInputs :
                Registered(cache, p.id) # {} =>
                    /\ RegisterPlugin(cache, p).err = "ErrDuplicatePlugin"
                    /\ RegisterPlugin(cache, p).cache = cache
          /\ \A p, q \in cache.plugins : p.id = q.id => p = q)
    /\ [][\A q \in cache.plugins : q \in cache'.plugins]_vars

\* A second registration of an ID was refused, the first one is in place
C22_Witness ==
    /\ cacheRes.name = "RegisterPlugin"
    /\ cacheRes.err = "ErrDuplicatePlugin"
    /\ Cardinality(cache.plugins) = Cardinality(PluginIDs)

\* C23: PluginSetup, PluginBuild and PluginExec fail with ErrInvalidPlugin
\* for an ID that is not registered, PluginExec fails with
\* ErrInvalidPluginCmd for a command the registered plugin does not
\* recognize, and in these cases no plugin code runs and the cache is
\* unchanged.
C23_InvalidPluginRefused ==
    /\ [](/\ \A id \in PluginIDs :
                Registered(cache, id) = {} =>
                    /\ PluginSetup(cache, id) = [err |-> "ErrInvalidPlugin", cache |-> cache]
                    /\ \A data \in UserPayloads :
                           PluginBuild(cache, id, data)
                               = [err |-> "ErrInvalidPlugin", cache |-> cache]
                    /\ cache.plugindata[id] = NoPluginData
          /\ \A cmd \in CommandInputs :
                /\ Registered(cache, cmd.id) = {} =>
                       PluginExec(cache, cmd)
                           = [err |-> "ErrInvalidPlugin", cache |-> cache, out |-> Nil]
                /\ (Registered(cache, cmd.id) # {}
                    /\ cmd.command \notin PluginCommands(cmd.id)) =>
                       PluginExec(cache, cmd)
                           = [err |-> "ErrInvalidPluginCmd", cache |-> cache, out |-> Nil])
    /\ [][cacheRes'.err \in {"ErrInvalidPlugin", "ErrInvalidPluginCmd"}
              => cache' = cache]_vars

\* PluginExec was refused for an unknown command of a registered plugin
\* whose code had run before
C23_Witness ==
    /\ cacheRes.name = "PluginExec"
    /\ cacheRes.err = "ErrInvalidPluginCmd"
    /\ \E id \in PluginIDs :
           /\ Registered(cache, id) # {}
           /\ cache.plugindata[id].setup
           /\ cache.plugindata[id].execs > 0
    /\ \E id \in PluginIDs : Registered(cache, id) = {}

\* No read of cache c answers as if c were complete
RefusesReads(c) ==
    /\ Inventory(c).err \notin {"nil", "ErrRecordNotFound"}
    /\ InventoryStats(c).err \notin {"nil", "ErrRecordNotFound"}
    /\ \A t \in Tokens :
           /\ Record(c, t).err \notin {"nil", "ErrRecordNotFound"}
           /\ \A v \in Versions :
                  RecordVersion(c, t, v).err \notin {"nil", "ErrRecordNotFound"}

\* C24: a Build that succeeds leaves exactly the rows of the given records,
\* whatever was stored; a Build that fails, for a record that cannot be
\* inserted or for a storage failure at any insert, leaves a cache that
\* refuses every read; and a Build of the same records after either ends in
\* the state of one successful Build.
C24_BuildAllOrNothing ==
    \A records \in BuildInputs :
        LET done == Build(cache, records)
        IN  /\ done.err = "nil" =>
                   /\ done.cache.records
                          = {convertRecordFromCache(records[n]) : n \in 1..Len(records)}
                   /\ Cardinality(done.cache.records) = Len(records)
                   /\ Inventory(done.cache).err = "nil"
                   /\ Build(done.cache, records) = done
            /\ done.err # "nil" =>
                   /\ RefusesReads(done.cache)
                   /\ Build(done.cache, records) = done
            /\ \A n \in 1..Len(records) :
                   LET bad == BuildInterrupted(cache, records, n)
                   IN  /\ bad.err # "nil"
                       /\ RefusesReads(bad.cache)
                       /\ Build(bad.cache, records) = done

\* An Inventory() was refused after a Build had failed
C24_Witness ==
    /\ cacheRes.name = "Inventory"
    /\ cacheRes.err = "ErrUnusable"
    /\ cache.unusable

\* C25: no stored record has the NotFound sentinel or a value outside the
\* enum as its status; NewRecord, UpdateRecord and UpdateRecordStatus refuse
\* such a status and leave the cache as it was; UpdateRecordStatus accepts
\* each of the six other values as target whatever status the latest
\* version has, Censored and Archived included.
C25_StatusEnumEnforced ==
    /\ \A q \in cache.records : q.status \in PersistedStatuses
    /\ \A t \in Tokens, v \in Versions, s \in StatusValues \ PersistedStatuses :
           /\ NewRecord(cache, MakeRecord(t, v, s, ContentOf(v))).err # "nil"
           /\ NewRecord(cache, MakeRecord(t, v, s, ContentOf(v))).cache = cache
           /\ UpdateRecord(cache, MakeRecord(t, v, s, ContentOf(v))).err # "nil"
           /\ UpdateRecord(cache, MakeRecord(t, v, s, ContentOf(v))).cache = cache
           /\ UpdateRecordStatus(cache, t, v, s, StatusChange.timestamp,
                                 StatusChange.metadata).err # "nil"
           /\ UpdateRecordStatus(cache, t, v, s, StatusChange.timestamp,
                                 StatusChange.metadata).cache = cache
    /\ \A t \in StoredTokens(cache), s \in PersistedStatuses :
           LET done == UpdateRecordStatus(cache, t, LatestRow(cache, t).version, s,
                                          StatusChange.timestamp, StatusChange.metadata)
           IN  /\ done.err = "nil"
               /\ LatestRow(done.cache, t).status = s

\* A status outside the enum was refused by UpdateRecordStatus while a
\* censored and an archived record are stored
C25_Witness ==
    /\ cacheRes.name = "UpdateRecordStatus"
    /\ cacheRes.err = "ErrInvalidStatus"
    /\ \E q \in cache.records : q.status = RecordStatusCensored
    /\ \E q \in cache.records : q.status = RecordStatusArchived

\* The record is a whole version as a caller wrote it: its files, metadata
\* streams, timestamp and censorship record are those of its version
WholeRecord(r) ==
    \E s \in PersistedStatuses :
        r = MakeRecord(r.censorshiprecord.token, r.version, s, ContentOf(r.version))

\* C26: with an UpdateRecord of a token under way at any step, Record(T)
\* and Inventory() return whole versions only: the previous latest version
\* or the new one, never a version with files or metadata missing.
C26_UpdateRecordAtomic ==
    /\ (cacheRes.name = "Record" /\ cacheRes.err = "nil") =>
           /\ WholeRecord(cacheRes.out)
           /\ cacheRes.out.censorshiprecord.token = cacheRes.arg[1]
           /\ \/ convertRecordFromCache(cacheRes.out) \in cache.records
              \/ /\ cache.pending.step > 0
                 /\ cacheRes.out = cache.pending.rec
    /\ (cacheRes.name = "Inventory" /\ cacheRes.err = "nil") =>
           /\ \A r \in cacheRes.out : WholeRecord(r)
           /\ \A r, q \in cacheRes.out :
                  r.censorshiprecord.token = q.censorshiprecord.token => r = q

\* Record(T) returned while an UpdateRecord of T had written its record row
\* but not yet its files
C26_Witness ==
    /\ cacheRes.name = "Record"
    /\ cacheRes.err = "nil"
    /\ cache.pending.step \in {1, 2}
    /\ cache.pending.rec.censorshiprecord.token = cacheRes.arg[1]

\* C27: two records whose (Token, Version) pairs differ have different
\* keys: the key of a record a caller passes differs from the key of every
\* stored row of another pair, and NewRecord finds a row in its way only
\* when its own pair is stored.
C27_KeyIdentifiesPair ==
    /\ \A q \in cache.records, t \in KeyTokens, v \in KeyVersions :
           <<t, v>> # <<q.token, q.version>>
               => convertRecordFromCache(
                      MakeRecord(t, v, RecordStatusNotReviewed, ContentOf(v))).key
                  # q.key
    /\ (cacheRes.name = "NewRecord" /\ cacheRes.err = "ErrDuplicate") =>
           \E q \in cache.records :
               q.token = cacheRes.arg[1] /\ q.version = cacheRes.arg[2]

\* C28: Open writes the version marker only when none is stored, and then
\* nothing else; with a marker stored, Open leaves every entry as it is,
\* whether it succeeds or fails; so over any sequence of Open and Close on
\* fresh instances the stored marker stays the one of the first Open.
C28_MarkerWrittenOnce ==
    /\ [][(inst.phase = "Unopened" /\ inst'.phase # "Unopened") =>
             IF HasKey(rows, DatabaseVersionKey) THEN rows' = rows
             ELSE /\ \A r \in rows' : r.key # DatabaseVersionKey => r \in rows
                  /\ \A r \in rows : r \in rows']_vars
    /\ [][HasKey(rows, DatabaseVersionKey) =>
             /\ HasKey(rows', DatabaseVersionKey)
             /\ TheRow(rows', DatabaseVersionKey) = TheRow(rows, DatabaseVersionKey)]_vars

\* The second instance failed to open a store whose marker the first
\* instance had written, and the marker is still that of the first Open
C28_Witness ==
    /\ ninst = 2
    /\ inst.phase = "Failed"
    /\ HasKey(rows, DatabaseVersionKey)
    /\ lastPut[DatabaseVersionKey].by = 1
    /\ \E k \in UserKeys : HasKey(rows, k)

\* C29: decoding what EncodeVersion returned succeeds and gives back the
\* caller's Version and Time with RecordType = RecordTypeVersion and
\* RecordVersion = DatabaseVersion, whatever envelope the caller's struct
\* carried; decoding what EncodeUser returned succeeds
C29_EncodeDecodeRoundTrip ==
    /\ codec.decoder = "version" =>
           /\ codec.err = "nil"
           /\ codec.out.version = codec.arg.version
           /\ codec.out.time = codec.arg.time
           /\ codec.out.recordtype = RecordTypeVersion
           /\ codec.out.recordversion = DatabaseVersion
    /\ codec.decoder = "user" =>
           /\ codec.err = "nil"
           /\ codec.out.id = codec.arg.id

\* A Version handed over with a foreign envelope, another database version
\* and a non-zero time has been encoded and decoded back
C29_Witness ==
    /\ codec.decoder = "version"
    /\ codec.arg.recordtype = RecordTypeUser
    /\ codec.arg.recordversion = OtherVersion
    /\ codec.arg.version = OtherVersion
    /\ codec.arg.time = 1
    /\ codec.out.version = OtherVersion

\* The payloads of the Puts to key k by callers other than p that have
\* started and not yet returned to their caller
PutsInFlight(p, k) ==
    {op[q].val : q \in {x \in Procs \ {p} :
                            pc[x] # "idle" /\ op[x].name = "Put" /\ op[x].key = k}}

\* Another caller's Put to key k has started and not yet returned to its
\* caller, and k was stored before it began: when that Put has already
\* written, the record of the write tells whether it replaced an entry
Overwriting(p, k) ==
    \E q \in Procs \ {p} :
        /\ pc[q] # "idle" /\ op[q].name = "Put" /\ op[q].key = k
        /\ IF pc[q] = "done" /\ res[q].err = "nil"
           THEN lastPut[k].over
           ELSE lastPut[k] # NoPut

\* C30: a Get that reads a key while another caller's Put to that key,
\* stored before the Put began, is under way ends without error, and with the whole payload stored
\* before that Put or the whole payload of that Put; so not with ErrNotFound
\* and not with a decrypt error
C30_GetDuringOverwrite ==
    [][\A p \in Procs :
         (/\ pc[p] = "run" /\ op[p].name = "Get" /\ pc'[p] = "done"
          /\ Overwriting(p, op[p].key))
         => /\ res'[p].err = "nil"
            /\ res'[p].val \in {lastPut[op[p].key].val} \cup PutsInFlight(p, op[p].key)
            /\ res'[p].val \in UserPayloads]_vars

\* A Get has returned the previous payload while the Put that overwrites the
\* key with another payload is between its Update and its Commit
C30_Witness ==
    \E p \in Procs \ {1} :
        /\ pc[p] = "done" /\ op[p].name = "Get" /\ res[p].err = "nil"
        /\ pc[1] = "txUpdated" /\ op[1].key = op[p].key
        /\ res[p].val # op[1].val
        /\ res[p].val = lastPut[op[p].key].val

C32_NoTransactionLeftOpen ==
    \A p \in Procs : pc[p] \in {"idle", "done"} => ~TxOpen(p)

\* C33: on one instance the shutdown flag, once set, stays set; the only
\* thing that changes a closed instance is Open, which fails with
\* ErrShutdown; and from Close on the instance writes nothing and every
\* call on it ends with ErrShutdown
C33_ShutdownMonotonic ==
    [][(inst.shutdown /\ ninst' = ninst)
       => /\ inst'.shutdown
          /\ inst' # inst => inst'.openErr = "ErrShutdown"
          /\ rows' = rows
          /\ \A p \in Procs :
                (pc[p] # "done" /\ pc'[p] = "done") => res'[p].err = "ErrShutdown"]_vars

\* Open has been called on the closed instance, and a Put after it was refused
C33_Witness ==
    /\ inst.shutdown
    /\ inst.handle = "open"
    /\ inst.openErr = "ErrShutdown"
    /\ pc[1] = "done" /\ op[1].name = "Put" /\ res[1].err = "ErrShutdown"
    /\ HasKey(rows, DatabaseVersionKey)

\* C34: a GetSnapshot that returns without error returns a map with an entry
\* for every key of the view it iterated; a failure on the way gives an error
\* and no snapshot
C34_SnapshotAllOrNothing ==
    \A p \in Procs :
        (pc[p] = "done" /\ op[p].name = "GetSnapshot" /\ res[p].err = "nil")
        => \A r \in snapIter[p].held : \E x \in res[p].snap : x.key = r.key

\* The user keys a Put has stored a payload under
KeysPut == {k \in UserKeys : lastPut[k] # NoPut}

\* C35: on a store opened fresh and given Puts under n user keys, a GetAll
\* that succeeds has called back n + 1 times and a snapshot has n + 1
\* entries: one of them is the entry of DatabaseVersionKey, whose value
\* decodes as the version record Open wrote
C35_MarkerNotFiltered ==
    \A p \in Procs :
        /\ (Done(p, "GetAll") /\ res[p].touched /\ res[p].err = "nil")
           => /\ Len(res[p].cbs) = Cardinality(KeysPut) + 1
              /\ \E n \in 1..Len(res[p].cbs) :
                    /\ res[p].cbs[n].key = DatabaseVersionKey
                    /\ DecodeVersion(res[p].cbs[n].val).err = "nil"
                    /\ DecodeVersion(res[p].cbs[n].val).version = DatabaseVersion
        /\ (Done(p, "GetSnapshot") /\ res[p].touched /\ res[p].err = "nil")
           => /\ Cardinality(res[p].snap) = Cardinality(KeysPut) + 1
              /\ \E x \in res[p].snap :
                    /\ x.key = DatabaseVersionKey
                    /\ DecodeVersion(x.val).err = "nil"
                    /\ DecodeVersion(x.val).version = DatabaseVersion

\* A GetAll on cockroachdb has called back for the marker and for every user
\* key, each of which was Put
C35_Witness ==
    /\ backend = "cockroachdb"
    /\ Done(1, "GetAll") /\ res[1].err = "nil"
    /\ KeysPut = UserKeys
    /\ Len(res[1].cbs) = Cardinality(UserKeys) + 1

C37_UpdateRecordStatusIdempotent ==
    [][cacheRes'.name = "UpdateRecordStatusAgain" =>
          /\ cacheRes'.err = "nil"
          /\ cache' = cache
          /\ Inventory(cache') = Inventory(cache)
          /\ InventoryStats(cache') = InventoryStats(cache)]_vars

\* The status change to Public has been made twice on a token of two versions
C37_Witness ==
    /\ cacheRes.name = "UpdateRecordStatusAgain"
    /\ cacheRes.err = "nil"
    /\ cacheRes.arg[3] = RecordStatusPublic
    /\ Cardinality(VersionsOf(cache, cacheRes.arg[1])) = 2
    /\ LatestRow(cache, cacheRes.arg[1]).status = RecordStatusPublic
    /\ LatestRow(cache, cacheRes.arg[1]).metadata = StatusChange.metadata
    /\ InventoryStats(cache).out.Public = 1

\* C38: a Set(userID, payload) of part_003 stores the payload whether a row
\* of userID existed or not: it returns nil, or the error of a transaction
\* that another caller's Set got in the way of, and after a Set that
\* returned nil Get(userID) returns the payload of the last such Set
C38_SetCreatesOrUpdates ==
    \A p \in Procs :
        (pc[p] = "done" /\ op[p].name = "Set")
        => /\ res[p].err \in {"nil", "ErrRetry", "ErrDuplicateKey"}
           /\ res[p].err = "nil" =>
                 /\ Get(backend, rows, inst, op[p].key).err = "nil"
                 /\ Get(backend, rows, inst, op[p].key).val = lastPut[op[p].key].val

\* C39: converting a cache.Record to its database row and back gives a
\* record with the same version, status, timestamp and censorship record,
\* and the same metadata streams and files in the same order
C39_RecordConversionLossless ==
    cacheRes.name = "convertRecordToCache" =>
        /\ cacheRes.out.version = cacheRes.arg.version
        /\ cacheRes.out.status = cacheRes.arg.status
        /\ cacheRes.out.timestamp = cacheRes.arg.timestamp
        /\ cacheRes.out.censorshiprecord = cacheRes.arg.censorshiprecord
        /\ Len(cacheRes.out.metadata) = Len(cacheRes.arg.metadata)
        /\ \A n \in 1..Len(cacheRes.arg.metadata) :
              cacheRes.out.metadata[n] = cacheRes.arg.metadata[n]
        /\ Len(cacheRes.out.files) = Len(cacheRes.arg.files)
        /\ \A n \in 1..Len(cacheRes.arg.files) :
              cacheRes.out.files[n] = cacheRes.arg.files[n]

\* A record with a status outside the enum, two metadata streams with the
\* higher identity first and no files has been converted and back
C39_Witness ==
    /\ cacheRes.name = "convertRecordToCache"
    /\ cacheRes.arg.status = RecordStatusArchived + 1
    /\ Len(cacheRes.arg.metadata) = 2
    /\ cacheRes.arg.metadata[1].id > cacheRes.arg.metadata[2].id
    /\ cacheRes.out.metadata[1].id = 2
    /\ Len(cacheRes.arg.files) = 0
    /\ Len(cacheRes.out.files) = 0

\* C40: converting a StartVote and its reply to the database StartVote and
\* back gives a reply with the same heights, hash and list of eligible
\* tickets, element by element, and a vote with the same token, mask,
\* duration, percentages and options
C40_StartVoteConversionLossless ==
    cacheRes.name = "convertStartVoteToDecred" =>
        /\ cacheRes.out.svr.startblockheight = cacheRes.arg.svr.startblockheight
        /\ cacheRes.out.svr.startblockhash = cacheRes.arg.svr.startblockhash
        /\ cacheRes.out.svr.endheight = cacheRes.arg.svr.endheight
        /\ Len(cacheRes.out.svr.eligibletickets) = Len(cacheRes.arg.svr.eligibletickets)
        /\ \A n \in 1..Len(cacheRes.arg.svr.eligibletickets) :
              cacheRes.out.svr.eligibletickets[n] = cacheRes.arg.svr.eligibletickets[n]
        /\ cacheRes.out.sv.vote.token = cacheRes.arg.sv.vote.token
        /\ cacheRes.out.sv.vote.mask = cacheRes.arg.sv.vote.mask
        /\ cacheRes.out.sv.vote.duration = cacheRes.arg.sv.vote.duration
        /\ cacheRes.out.sv.vote.quorumpercentage = cacheRes.arg.sv.vote.quorumpercentage
        /\ cacheRes.out.sv.vote.passpercentage = cacheRes.arg.sv.vote.passpercentage
        /\ Len(cacheRes.out.sv.vote.options) = Len(cacheRes.arg.sv.vote.options)
        /\ \A n \in 1..Len(cacheRes.arg.sv.vote.options) :
              cacheRes.out.sv.vote.options[n] = cacheRes.arg.sv.vote.options[n]
====
